---------------------------- MODULE Spec2Model ----------------------------
(***************************************************************************)
(* Worker-assignment prediction service: the natural-language pipeline of  *)
(* AIWorkerAssignmentMCP (ai-server), the tool handlers of                 *)
(* WorkerAssignmentMCPServer (src/mcp/server.js) and the ML system both    *)
(* share through AppService.                                               *)
(*                                                                         *)
(* Numbers: a confidence c is held as c * One (0.85 is 85000), a weight   *)
(* in tenths, estimatedTime and avgQuality in sixths (TimeUnit) so that    *)
(* the mean over 1..3 neighbours is exact.                                 *)
(***************************************************************************)
EXTENDS Integers, Sequences, FiniteSets, TLC

VARIABLES
    trainingData,     \* mlSystem.trainingData: the raw store of records
    isModelTrained,   \* mlSystem.isModelTrained
    snapshot,         \* the records the last train() built the model from
    toolResp,         \* the answer of the last /mcp/tools/call
    learningData,     \* AIWorkerAssignmentMCP.learningData
    reqs,             \* the /ai/query requests in flight, one per slot
    running,          \* the slot whose synchronous segment runs, 0 = none
    clock,            \* Date: one tick per timestamp taken
    nreq,             \* number of /ai/query requests received
    nadd,             \* number of add_training_data calls made
    mcpInteractions,  \* MCPService.interactions
    mcpHistory,       \* what getInteractionHistory returned last
    nlog,             \* number of logInteraction calls made
    conversationHistory  \* the entries stored per conversation id

vars == <<trainingData, isModelTrained, snapshot, toolResp, learningData,
          reqs, running, clock, nreq, nadd, mcpInteractions, mcpHistory, nlog,
          conversationHistory>>

(***************************************************************************)
(* Bounds of the model.                                                    *)
(***************************************************************************)
MaxRequests == 1
MaxAdds == 1
MaxLearners == 2
MaxLogs == 2

(***************************************************************************)
(* Text: JavaScript strings are TLA+ strings; the operators below are the  *)
(* String methods and regular expressions the code uses.                   *)
(***************************************************************************)
Min(a, b) == IF a < b THEN a ELSE b
Max(a, b) == IF a > b THEN a ELSE b

Char(s, i) == SubSeq(s, i, i)

UpperLetters == "ABCDEFGHIJKLMNOPQRSTUVWXYZ"
LowerLetters == "abcdefghijklmnopqrstuvwxyz"
Digits == "0123456789"

LowerChar(c) ==
    IF \E k \in 1..26 : Char(UpperLetters, k) = c
    THEN Char(LowerLetters, CHOOSE k \in 1..26 : Char(UpperLetters, k) = c)
    ELSE c

RECURSIVE toLowerCase(_)
toLowerCase(s) ==
    IF Len(s) = 0 THEN ""
    ELSE LowerChar(Char(s, 1)) \o toLowerCase(SubSeq(s, 2, Len(s)))

\* String.prototype.includes: a case-sensitive substring test
includes(s, lit) ==
    \E i \in 1..(Len(s) - Len(lit) + 1) : SubSeq(s, i, i + Len(lit) - 1) = lit

\* first index >= from at which lit occurs in s, 0 when there is none
IndexFrom(s, lit, from) ==
    LET hits == {i \in from..(Len(s) - Len(lit) + 1) :
                    SubSeq(s, i, i + Len(lit) - 1) = lit}
    IN IF hits = {} THEN 0 ELSE CHOOSE i \in hits : \A j \in hits : i <= j

\* RegExp.prototype.test for a pattern lit1.*lit2.*...: chunks is the
\* sequence of literals, s the (lowercased, single-line) subject
RECURSIVE TestFrom(_, _, _, _)
TestFrom(chunks, k, s, from) ==
    IF k > Len(chunks) THEN TRUE
    ELSE LET i == IndexFrom(s, chunks[k], from)
         IN i # 0 /\ TestFrom(chunks, k + 1, s, i + Len(chunks[k]))

RegexTest(chunks, s) == TestFrom(chunks, 1, s, 1)

IsDigit(c) == \E k \in 1..10 : Char(Digits, k) = c
DigitVal(c) == (CHOOSE k \in 1..10 : Char(Digits, k) = c) - 1
IsSpace(c) == c = " "

\* index of the first character at or after i that is not whitespace
RECURSIVE SkipSpaces(_, _)
SkipSpaces(s, i) ==
    IF i <= Len(s) /\ IsSpace(Char(s, i)) THEN SkipSpaces(s, i + 1) ELSE i

\* parseInt of the maximal run of digits that starts at i
RECURSIVE ParseDigits(_, _, _)
ParseDigits(s, i, acc) ==
    IF i <= Len(s) /\ IsDigit(Char(s, i))
    THEN ParseDigits(s, i + 1, acc * 10 + DigitVal(Char(s, i)))
    ELSE acc

\* the match taken from the last place the pattern matches
MachineMatchLast(query) ==
    LET s == toLowerCase(query)
        starts == {i \in 1..Len(s) :
                     /\ i + 6 <= Len(s)
                     /\ SubSeq(s, i, i + 6) = "machine"
                     /\ LET d == SkipSpaces(s, i + 7)
                        IN d <= Len(s) /\ IsDigit(Char(s, d))}
    IN IF starts = {} THEN [found |-> FALSE, value |-> 0]
       ELSE LET i == CHOOSE x \in starts : \A y \in starts : x >= y
            IN [found |-> TRUE,
                value |-> ParseDigits(s, SkipSpaces(s, i + 7), 0)]

\* query.match(/machine\s*(\d+)/i): the leftmost match, as
\* [found, value]; value is parseInt of the captured digits
MachineMatch(query) ==
    LET s == toLowerCase(query)
        starts == {i \in 1..Len(s) :
                     /\ i + 6 <= Len(s)
                     /\ SubSeq(s, i, i + 6) = "machine"
                     /\ LET d == SkipSpaces(s, i + 7)
                        IN d <= Len(s) /\ IsDigit(Char(s, d))}
    IN IF starts = {} THEN [found |-> FALSE, value |-> 0]
       ELSE LET i == CHOOSE x \in starts : \A y \in starts : x <= y
            IN [found |-> TRUE,
                value |-> ParseDigits(s, SkipSpaces(s, i + 7), 0)]

\* query.toLowerCase().split(/\s+/)
RECURSIVE SplitFrom(_, _, _)
SplitFrom(s, i, word) ==
    IF i > Len(s) THEN <<word>>
    ELSE IF IsSpace(Char(s, i))
         THEN <<word>> \o SplitFrom(s, SkipSpaces(s, i), "")
         ELSE SplitFrom(s, i + 1, word \o Char(s, i))

splitWords(s) == SplitFrom(s, 1, "")


(***************************************************************************)
(* The ML system (WorkerAssignmentML behind MLService.getMLSystem()): a    *)
(* nearest-neighbour model over the records of one machine.  Predictions   *)
(* read the snapshot the last train() built, never the raw store.          *)
(***************************************************************************)
K == 3
TimeUnit == 6
One == 100000
Machines == 1..5
Complexities == 1..5

Rec(w, m, t, q) ==
    [workerId |-> w, machineId |-> m, timeMinutes |-> t, qualityScore |-> q]

\* the records DataService.loadHistoricalData() delivers at start-up
HistoricalData ==
    << Rec("Worker_A", 1, 12, 90), Rec("Worker_B", 1, 22, 85),
       Rec("Worker_C", 1, 33, 96), Rec("Worker_A", 1, 45, 80),
       Rec("Worker_B", 1, 55, 99), Rec("Worker_B", 2, 25, 88),
       Rec("Worker_C", 3, 15, 92), Rec("Worker_A", 3, 18, 70),
       Rec("Worker_C", 3, 16, 90) >>

\* a start-up file with one worker only
SmallData == << Rec("Worker_A", 1, 12, 90), Rec("Worker_A", 3, 40, 80) >>

\* a start-up file of one fast and careful worker on machine 1, and of
\* machine 2 shared by Worker_B (short and long jobs) and Worker_A
SteadyData ==
    << Rec("Worker_A", 1, 10, 90), Rec("Worker_A", 1, 12, 92),
       Rec("Worker_A", 1, 14, 94),
       Rec("Worker_B", 2, 10, 80), Rec("Worker_B", 2, 11, 81),
       Rec("Worker_B", 2, 12, 82),
       Rec("Worker_A", 2, 30, 85), Rec("Worker_A", 2, 31, 86),
       Rec("Worker_A", 2, 32, 87),
       Rec("Worker_B", 2, 50, 90), Rec("Worker_B", 2, 51, 91),
       Rec("Worker_B", 2, 52, 92) >>

\* the complexity signal derived from a record
DerivedComplexity(r) == Min(5, Max(1, r.timeMinutes \div 10))

Abs(x) == IF x < 0 THEN -x ELSE x

RECURSIVE SumOver(_, _, _)
SumOver(S, f, acc) ==
    IF S = {} THEN acc
    ELSE LET x == CHOOSE y \in S : TRUE
         IN SumOver(S \ {x}, f, acc + f[x])

\* the indices of the (at most K) records of machine m nearest to
\* complexity c, ties broken by the most recent record first
Neighbours(snap, m, c) ==
    LET cand == {i \in 1..Len(snap) : snap[i].machineId = m}
        dist(i) == Abs(DerivedComplexity(snap[i]) - c)
        closer(j, i) == dist(j) < dist(i) \/ (dist(j) = dist(i) /\ j > i)
    IN {i \in cand : Cardinality({j \in cand : closer(j, i)}) < K}

\* the neighbour with the best combined rank of time and quality
BestNeighbour(snap, N) ==
    LET timeRank(i) ==
            Cardinality({j \in N : snap[j].timeMinutes < snap[i].timeMinutes})
        qualRank(i) ==
            Cardinality({j \in N : snap[j].qualityScore > snap[i].qualityScore})
        rank(i) == timeRank(i) + qualRank(i)
        better(j, i) == rank(j) < rank(i) \/ (rank(j) = rank(i) /\ j > i)
    IN CHOOSE i \in N : \A j \in N \ {i} : ~better(j, i)

NoPrediction(err) ==
    [ok |-> FALSE, error |-> err, recommendedWorker |-> "",
     estimatedTime |-> 0, confidence |-> 0, avgQuality |-> 0, jobCount |-> 0]

\* a prediction computed from the records snap of a trained model
PredictFrom(snap, m, c) ==
    LET N == Neighbours(snap, m, c)
        n == Cardinality(N)
        best == BestNeighbour(snap, N)
        w == snap[best].workerId
        time == [i \in N |-> snap[i].timeMinutes]
        qual == [i \in N |-> snap[i].qualityScore]
    IN IF N = {} THEN NoPrediction("ModelNotTrainedError: no data for machine")
       ELSE [ok |-> TRUE, error |-> "",
             recommendedWorker |-> w,
             estimatedTime |-> (SumOver(N, time, 0) * TimeUnit) \div n,
             confidence |->
                 ((4 + 2 * Cardinality({i \in N : snap[i].workerId = w})) * One)
                     \div 10,
             avgQuality |-> (SumOver(N, qual, 0) * TimeUnit) \div n,
             jobCount |-> Cardinality({i \in 1..Len(snap) :
                               /\ snap[i].machineId = m
                               /\ snap[i].workerId = w})]

\* mlSystem.predictWorkerML(machineId, complexity, false) on the ML system
\* ml = [trained, snap]
predictWorkerML(ml, m, c) ==
    IF m \notin Machines THEN NoPrediction("InvalidMachineError: machine out of range")
    ELSE IF ~ml.trained THEN NoPrediction("ModelNotTrainedError: model not trained")
    ELSE PredictFrom(ml.snap, m, c)

mlSystem == [trained |-> isModelTrained, snap |-> snapshot]

\* mlSystem.addHistoricalData(data): the raw store grows, the model stays
addHistoricalData(store, data) == store \o data


(***************************************************************************)
(* JavaScript values: [t, v] with t the type tag.  An object's v is a      *)
(* function from its keys to values.                                       *)
(***************************************************************************)
JUndef == [t |-> "undefined", v |-> 0]
JNull == [t |-> "null", v |-> 0]
JNum(n) == [t |-> "number", v |-> n]
JStr(str) == [t |-> "string", v |-> str]
JObj(f) == [t |-> "object", v |-> f]
EmptyObj == JObj(<<>>)

\* a === b for the primitive values the code compares
StrictEq(a, b) == a.t = b.t /\ a.t # "object" /\ a.v = b.v

Truthy(x) ==
    CASE x.t = "number" -> x.v # 0
      [] x.t = "string" -> x.v # ""
      [] x.t = "object" -> TRUE
      [] OTHER -> FALSE

HasKey(o, k) == o.t = "object" /\ k \in DOMAIN o.v

\* o?.k : undefined when o is null or undefined or has no such property
Get(o, k) == IF HasKey(o, k) THEN o.v[k] ELSE JUndef

\* {...o, [k]: x}
Put(o, k, x) == JObj((k :> x) @@ o.v)

\* if (cond) o[k] = x
PutIf(cond, o, k, x) == IF cond THEN Put(o, k, x) ELSE o

\* {...a, ...b}: a shallow merge, the keys of b win
Spread(a, b) ==
    JObj([k \in (DOMAIN a.v) \cup (DOMAIN b.v) |->
            IF k \in DOMAIN b.v THEN b.v[k] ELSE a.v[k]])

(***************************************************************************)
(* AIWorkerAssignmentMCP: semantic tables.                                 *)
(***************************************************************************)
Pat(type, chunks, text) ==
    [type |-> type, chunks |-> chunks, matched_pattern |-> text]

\* initializeIntentPatterns(), flattened in Object.entries order
intentPatterns ==
    << Pat("assignment", <<"who", "should", "work">>, "/who.*should.*work/i"),
       Pat("assignment", <<"best", "worker">>, "/best.*worker/i"),
       Pat("assignment", <<"recommend", "worker">>, "/recommend.*worker/i"),
       Pat("assignment", <<"assign", "worker">>, "/assign.*worker/i"),
       Pat("assignment", <<"optimal", "assignment">>, "/optimal.*assignment/i"),
       Pat("assignment", <<"who", "can", "handle">>, "/who.*can.*handle/i"),
       Pat("assignment", <<"need", "someone", "for">>, "/need.*someone.*for/i"),
       Pat("assignment", <<"looking", "for", "worker">>, "/looking.*for.*worker/i"),
       Pat("performance", <<"how", "performing">>, "/how.*performing/i"),
       Pat("performance", <<"worker", "performance">>, "/worker.*performance/i"),
       Pat("performance", <<"efficiency">>, "/efficiency/i"),
       Pat("performance", <<"quality", "score">>, "/quality.*score/i"),
       Pat("performance", <<"speed", "comparison">>, "/speed.*comparison/i"),
       Pat("performance", <<"track", "record">>, "/track.*record/i"),
       Pat("performance", <<"evaluate", "worker">>, "/evaluate.*worker/i"),
       Pat("performance", <<"analyze", "performance">>, "/analyze.*performance/i"),
       Pat("urgency", <<"urgent">>, "/urgent/i"),
       Pat("urgency", <<"rush">>, "/rush/i"),
       Pat("urgency", <<"asap">>, "/asap/i"),
       Pat("urgency", <<"immediately">>, "/immediately/i"),
       Pat("urgency", <<"critical">>, "/critical/i"),
       Pat("urgency", <<"deadline">>, "/deadline/i"),
       Pat("urgency", <<"priority">>, "/priority/i"),
       Pat("urgency", <<"emergency">>, "/emergency/i"),
       Pat("urgency", <<"quick">>, "/quick/i"),
       Pat("quality", <<"precision">>, "/precision/i"),
       Pat("quality", <<"accurate">>, "/accurate/i"),
       Pat("quality", <<"careful">>, "/careful/i"),
       Pat("quality", <<"detailed">>, "/detailed/i"),
       Pat("quality", <<"high", "quality">>, "/high.*quality/i"),
       Pat("quality", <<"perfect">>, "/perfect/i"),
       Pat("quality", <<"exact">>, "/exact/i"),
       Pat("quality", <<"flawless">>, "/flawless/i"),
       Pat("learning", <<"learn", "from">>, "/learn.*from/i"),
       Pat("learning", <<"improve">>, "/improve/i"),
       Pat("learning", <<"feedback">>, "/feedback/i"),
       Pat("learning", <<"train", "model">>, "/train.*model/i"),
       Pat("learning", <<"update", "data">>, "/update.*data/i"),
       Pat("learning", <<"better", "prediction">>, "/better.*prediction/i"),
       Pat("learning", <<"enhance">>, "/enhance/i"),
       Pat("analytics", <<"status">>, "/status/i"),
       Pat("analytics", <<"overview">>, "/overview/i"),
       Pat("analytics", <<"analytics">>, "/analytics/i"),
       Pat("analytics", <<"performance", "metrics">>, "/performance.*metrics/i"),
       Pat("analytics", <<"system", "health">>, "/system.*health/i"),
       Pat("analytics", <<"statistics">>, "/statistics/i"),
       Pat("analytics", <<"summary">>, "/summary/i") >>

Fac(type, chunks, weight, factor) ==
    [factorType |-> type, chunks |-> chunks, weight |-> weight, factor |-> factor]

\* initializeContextualFactors(), flattened in Object.entries order;
\* weights in tenths
contextualFactors ==
    << Fac("timeContext", <<"morning">>, 12, "fresh_start"),
       Fac("timeContext", <<"afternoon">>, 10, "steady_pace"),
       Fac("timeContext", <<"evening">>, 9, "fatigue_consideration"),
       Fac("timeContext", <<"end", "of", "day">>, 8, "rushing_risk"),
       Fac("workloadContext", <<"heavy", "workload">>, 8, "capacity_concern"),
       Fac("workloadContext", <<"light", "load">>, 12, "available_capacity"),
       Fac("workloadContext", <<"busy">>, 7, "limited_availability"),
       Fac("workloadContext", <<"free">>, 13, "full_availability"),
       Fac("qualityContext", <<"prototype">>, 15, "experimental_work"),
       Fac("qualityContext", <<"production">>, 13, "standard_quality"),
       Fac("qualityContext", <<"customer", "facing">>, 16, "high_stakes"),
       Fac("qualityContext", <<"internal", "use">>, 10, "standard_quality") >>


(***************************************************************************)
(* Step 1: analyzeIntent.                                                  *)
(***************************************************************************)
\* the values Math.random() is drawn from, in percent of [0, 1)
RandomDraws == {0, 50}

\* the elements of a finite set of integers in ascending order
RECURSIVE Ascending(_)
Ascending(S) ==
    IF S = {} THEN <<>>
    ELSE LET m == CHOOSE x \in S : \A y \in S : x <= y
         IN <<m>> \o Ascending(S \ {m})

\* the indices of the patterns for which pattern.test(lowerQuery) holds
MatchedPatterns(query) ==
    LET lowerQuery == toLowerCase(query)
    IN {i \in 1..Len(intentPatterns) :
           RegexTest(intentPatterns[i].chunks, lowerQuery)}

\* detectedIntents.sort((a, b) => b.confidence - a.confidence): descending
\* by confidence, equal confidences keep their order (the sort is stable)
SortByConfidence(d) ==
    LET before(j, i) ==
            \/ d[j].confidence > d[i].confidence
            \/ (d[j].confidence = d[i].confidence /\ j < i)
        pos(i) == Cardinality({j \in 1..Len(d) : before(j, i)}) + 1
    IN [k \in 1..Len(d) |-> d[CHOOSE i \in 1..Len(d) : pos(i) = k]]

\* the patterns that match, in the order of the two loops
DetectedPatterns(query) == Ascending(MatchedPatterns(query))

\* analyzeIntent(query) for the matching patterns hits; draws[k] is the
\* k-th value of Math.random()
IntentOf(hits, draws) ==
    LET detected ==
            IF Len(hits) = 0
            THEN << [type |-> "general_inquiry", confidence |-> 60000,
                     matched_pattern |-> "fallback_analysis"] >>
            ELSE [k \in 1..Len(hits) |->
                    [type |-> intentPatterns[hits[k]].type,
                     confidence |-> 80000 + draws[k] * 200,
                     matched_pattern |-> intentPatterns[hits[k]].matched_pattern]]
        sorted == SortByConfidence(detected)
    IN [primary |-> sorted[1],
        secondary |-> SubSeq(sorted, 2, Min(3, Len(sorted))),
        detected |-> Len(sorted)]

(***************************************************************************)
(* Step 2: extractContextFromQuery.                                        *)
(***************************************************************************)
complexityIndicators ==
    << [level |-> "simple",
        indicators |-> <<"simple", "easy", "basic", "straightforward">>],
       [level |-> "medium",
        indicators |-> <<"medium", "standard", "normal", "regular">>],
       [level |-> "complex",
        indicators |-> <<"complex", "difficult", "challenging", "advanced",
                         "intricate">>],
       [level |-> "critical",
        indicators |-> <<"critical", "precision", "perfect", "exact",
                         "flawless">>] >>

\* the requirements derived from the query text
DerivedRequirements(query) ==
    LET mm == MachineMatch(query)
        lower == toLowerCase(query)
        levels == {i \in 1..Len(complexityIndicators) :
                     \E j \in 1..Len(complexityIndicators[i].indicators) :
                        includes(lower, complexityIndicators[i].indicators[j])}
        r1 == PutIf(mm.found, EmptyObj, "machineId", JNum(mm.value))
        r2 == PutIf(levels # {}, r1, "complexity",
                    JStr(complexityIndicators[
                             CHOOSE i \in levels : \A j \in levels : i <= j].level))
        r3 == PutIf(includes(query, "urgent") \/ includes(query, "rush")
                       \/ includes(query, "asap"),
                    r2, "timeConstraint", JStr("urgent"))
    IN PutIf(includes(query, "quality") \/ includes(query, "precision")
                \/ includes(query, "careful"),
             r3, "qualityFocus", JStr("high"))

FactorObj(f) ==
    JObj(("factor" :> JStr(f.factor)) @@ ("weight" :> JNum(f.weight)))

\* the environmental factors derived from the query text; within one
\* factor type the last matching pattern wins
DerivedFactors(query) ==
    LET lower == toLowerCase(query)
        hits == {i \in 1..Len(contextualFactors) :
                    RegexTest(contextualFactors[i].chunks, lower)}
        types == {contextualFactors[i].factorType : i \in hits}
        last(ty) == CHOOSE i \in hits :
                       /\ contextualFactors[i].factorType = ty
                       /\ \A j \in hits :
                            contextualFactors[j].factorType = ty => j <= i
        e0 == IF includes(query, "urgent") \/ includes(query, "rush")
                 \/ includes(query, "asap")
              THEN Put(EmptyObj, "urgency", JStr("high")) ELSE EmptyObj
    IN JObj([k \in (DOMAIN e0.v) \cup types |->
                IF k \in types THEN FactorObj(contextualFactors[last(k)])
                ELSE e0.v[k]])

\* the context object built from the query before the merge
DerivedContext(query) ==
    JObj(("query_analysis" :> EmptyObj)
         @@ ("environmental_factors" :> DerivedFactors(query))
         @@ ("requirements" :> DerivedRequirements(query))
         @@ ("constraints" :> EmptyObj))



(***************************************************************************)
(* The query texts of the specifications, and what steps 1, 2 and 5 read   *)
(* off a query text, evaluated once per text.                              *)
(***************************************************************************)
KnownQueries ==
    { "Who should work on Machine 1 for an urgent precision job?",
      "recommend a worker for a simple job on machine 1",
      "best worker for machine 0",
      "assign a worker to machine 7",
      "who can handle machine 3",
      "what is the status",
      "give feedback",
      "recommend a worker for production this morning",
      "recommend a worker",
      "urgent precision job on Machine 1",
      "best worker for machine 2 or machine 1",
      "best worker for machine 12",
      "best worker for the machine shop, machine 4",
      "show user_preferences status",
      "URGENT: who should work on machine 1",
      "" }

Understand(query) ==
    [hits |-> DetectedPatterns(query),
     context |-> DerivedContext(query),
     words |-> splitWords(toLowerCase(query))]

Understood == [q \in KnownQueries |-> Understand(q)]

Facts(query) ==
    IF query \in DOMAIN Understood THEN Understood[query] ELSE Understand(query)

analyzeIntent(query, draws) == IntentOf(Facts(query).hits, draws)

\* the merge with the derived context winning
extractContextDerivedWins(query, providedContext) ==
    Spread(providedContext, Facts(query).context)

extractContextFromQuery(query, providedContext) ==
    Spread(Facts(query).context, providedContext)

(***************************************************************************)
(* Step 3: reasonAboutQuery.                                               *)
(***************************************************************************)
\* String(n) for a natural number n
RECURSIVE NumToStr(_)
NumToStr(n) ==
    IF n < 10 THEN Char(Digits, n + 1)
    ELSE NumToStr(n \div 10) \o Char(Digits, (n % 10) + 1)

\* `${x}` for the values the templates interpolate
Template(x) ==
    CASE x.t = "number" -> IF x.v < 0 THEN "-" \o NumToStr(-x.v) ELSE NumToStr(x.v)
      [] x.t = "string" -> x.v
      [] x.t = "null" -> "null"
      [] x.t = "undefined" -> "undefined"
      [] OTHER -> "[object Object]"

\* mapComplexityToNumber(complexityString): mapping[...] || 3
mapComplexityToNumber(complexityString) ==
    LET mapping == ("simple" :> 1) @@ ("easy" :> 1) @@ ("basic" :> 1)
                   @@ ("medium" :> 3) @@ ("standard" :> 3) @@ ("normal" :> 3)
                   @@ ("complex" :> 4) @@ ("difficult" :> 4)
                   @@ ("challenging" :> 4) @@ ("critical" :> 5)
                   @@ ("precision" :> 5) @@ ("perfect" :> 5)
    IN IF complexityString.t = "string" /\ complexityString.v \in DOMAIN mapping
       THEN mapping[complexityString.v] ELSE 3

UrgencyHigh(context) ==
    StrictEq(Get(Get(context, "environmental_factors"), "urgency"), JStr("high"))

QualityFocusHigh(context) ==
    StrictEq(Get(Get(context, "requirements"), "qualityFocus"), JStr("high"))

intelligentMachineSelection(context) ==
    IF QualityFocusHigh(context) THEN 1
    ELSE IF UrgencyHigh(context) THEN 3
    ELSE 2

intelligentComplexityAssessment(context) ==
    Min(5, 3 + (IF UrgencyHigh(context) THEN 1 ELSE 0)
             + (IF QualityFocusHigh(context) THEN 1 ELSE 0))

NoParameters == [machineId |-> JUndef, complexity |-> 0]

\* the assignment strategy without the increments for urgency and quality
reasonAboutAssignmentFlat(context) ==
    LET given == Get(Get(context, "requirements"), "machineId")
        mapped == mapComplexityToNumber(Get(Get(context, "requirements"), "complexity"))
    IN [approach |-> "intelligent_worker_assignment",
        confidence |-> 85000,
        explanation |-> "For this assignment",
        suggestions |-> <<>>,
        parameters |->
            [machineId |-> IF ~Truthy(given)
                           THEN JNum(intelligentMachineSelection(context))
                           ELSE given,
             complexity |-> IF mapped = 0
                            THEN intelligentComplexityAssessment(context)
                            ELSE mapped]]

reasonAboutAssignment(context) ==
    LET given == Get(Get(context, "requirements"), "machineId")
        mapped == mapComplexityToNumber(Get(Get(context, "requirements"), "complexity"))
        machineId == IF ~Truthy(given)
                     THEN JNum(intelligentMachineSelection(context)) ELSE given
        complexity == IF mapped = 0
                      THEN intelligentComplexityAssessment(context) ELSE mapped
        s1 == IF ~Truthy(given)
              THEN << "Intelligently selected Machine " \o Template(machineId)
                      \o " based on context" >>
              ELSE <<>>
        s2 == IF mapped = 0
              THEN << "Assessed complexity as level " \o NumToStr(complexity)
                      \o " based on requirements" >>
              ELSE <<>>
        e0 == "For this assignment, I'm considering Machine " \o Template(machineId)
              \o " with complexity level " \o NumToStr(complexity) \o ". "
        e1 == IF UrgencyHigh(context)
              THEN e0 \o "Given the urgent nature, I'll prioritize workers with fast completion times. "
              ELSE e0
        e2 == IF QualityFocusHigh(context)
              THEN e1 \o "With high quality requirements, I'll emphasize workers with excellent quality scores. "
              ELSE e1
    IN [approach |-> "intelligent_worker_assignment",
        confidence |-> 85000 + (IF UrgencyHigh(context) THEN 10000 ELSE 0)
                             + (IF QualityFocusHigh(context) THEN 10000 ELSE 0),
        explanation |-> e2,
        suggestions |-> s1 \o s2,
        parameters |-> [machineId |-> machineId, complexity |-> complexity]]

reasonAboutPerformance(context) ==
    [approach |-> "performance_analysis", confidence |-> 90000,
     explanation |-> "I'll analyze worker performance with contextual insights and comparative analysis.",
     suggestions |-> <<"Include historical trends", "Compare with team averages",
                       "Identify improvement opportunities">>,
     parameters |-> NoParameters]

reasonAboutAnalytics(context) ==
    [approach |-> "comprehensive_analytics", confidence |-> 95000,
     explanation |-> "I'll provide comprehensive system analytics with predictive insights.",
     suggestions |-> <<"Real-time metrics", "Trend analysis", "Predictive modeling",
                       "Actionable recommendations">>,
     parameters |-> NoParameters]

reasonAboutLearning(context) ==
    [approach |-> "adaptive_learning", confidence |-> 80000,
     explanation |-> "I'll help the system learn and improve from new data and feedback.",
     suggestions |-> <<"Incremental learning", "Pattern recognition",
                       "Model optimization">>,
     parameters |-> NoParameters]

reasonAboutGeneral(context) ==
    [approach |-> "general_assistance", confidence |-> 70000,
     explanation |-> "I'll provide helpful information and guidance based on available context.",
     suggestions |-> <<"Clarify specific needs", "Explore available options",
                       "Provide educational information">>,
     parameters |-> NoParameters]

\* the keys of an environmental_factors object in Object.entries order
FactorKeyOrder ==
    <<"urgency", "timeContext", "workloadContext", "qualityContext">>

\* the loop of applyEnvironmentalFactors over the entries from index i on
RECURSIVE ApplyFactorsFrom(_, _, _)
ApplyFactorsFrom(reasoning, factors, i) ==
    IF i > Len(FactorKeyOrder) THEN reasoning
    ELSE IF ~HasKey(factors, FactorKeyOrder[i])
         THEN ApplyFactorsFrom(reasoning, factors, i + 1)
         ELSE LET factorData == factors.v[FactorKeyOrder[i]]
                  weight == Get(factorData, "weight")
              IN IF weight.t = "number" /\ Truthy(weight)
                 THEN ApplyFactorsFrom(
                        [reasoning EXCEPT
                           !.confidence = (@ * weight.v) \div 10,
                           !.explanation = @ \o "Considering "
                               \o Template(Get(factorData, "factor")) \o " factor. "],
                        factors, i + 1)
                 ELSE ApplyFactorsFrom(reasoning, factors, i + 1)

\* factorData.weight raises a TypeError on an entry that is null
FactorsThrow(context) ==
    LET factors == Get(context, "environmental_factors")
    IN /\ factors.t = "object"
       /\ \E k \in DOMAIN factors.v : factors.v[k].t \in {"null", "undefined"}

\* the adjustment without the final Math.min / Math.max
applyEnvironmentalFactorsUnclamped(reasoning, context) ==
    LET factors == Get(context, "environmental_factors")
    IN IF factors.t = "object"
       THEN ApplyFactorsFrom(reasoning, factors, 1) ELSE reasoning

applyEnvironmentalFactors(reasoning, context) ==
    LET factors == Get(context, "environmental_factors")
        adjusted == IF factors.t = "object"
                    THEN ApplyFactorsFrom(reasoning, factors, 1) ELSE reasoning
    IN [adjusted EXCEPT !.confidence = Min(One, Max(One \div 10, @))]

reasonAboutQuery(intent, context) ==
    LET type == intent.primary.type
        reasoning ==
            CASE type = "assignment" -> reasonAboutAssignment(context)
              [] type = "performance" -> reasonAboutPerformance(context)
              [] type = "analytics" -> reasonAboutAnalytics(context)
              [] type = "learning" -> reasonAboutLearning(context)
              [] OTHER -> reasonAboutGeneral(context)
    IN applyEnvironmentalFactors(reasoning, context)


(***************************************************************************)
(* Step 4: executeIntelligentAction and the enhancement of a prediction.   *)
(***************************************************************************)
\* the machineId handed to predictWorkerML, 0 when it is not a number
MachineArg(x) == IF x.t = "number" THEN x.v ELSE 0

\* contextual_score * One; prediction.confidence * 100 * reasoning.confidence
\* is taken as (confidence in thousandths) * reasoning.confidence, which is
\* exact for the confidences the ML system returns
\* the score without the final Math.min(100, score)
calculateContextualScoreUncapped(prediction, reasoning) ==
    ((prediction.confidence \div 1000) * reasoning.confidence)
    + (IF includes(reasoning.explanation, "urgent")
          /\ prediction.estimatedTime < 20 * TimeUnit THEN 10 * One ELSE 0)
    + (IF includes(reasoning.explanation, "quality")
          /\ prediction.avgQuality > 85 * TimeUnit THEN 15 * One ELSE 0)

calculateContextualScore(prediction, reasoning) ==
    LET score == ((prediction.confidence \div 1000) * reasoning.confidence)
        urgent == IF includes(reasoning.explanation, "urgent")
                     /\ prediction.estimatedTime < 20 * TimeUnit
                  THEN 10 * One ELSE 0
        quality == IF includes(reasoning.explanation, "quality")
                      /\ prediction.avgQuality > 85 * TimeUnit
                   THEN 15 * One ELSE 0
    IN Min(100 * One, score + urgent + quality)

\* the loop of generateAlternatives from complexity level i on
RECURSIVE AlternativesFrom(_, _, _, _, _)
AlternativesFrom(ml, basePrediction, machineId, complexity, i) ==
    IF i > 5 THEN <<>>
    ELSE LET altPrediction == predictWorkerML(ml, machineId, i)
             rest == AlternativesFrom(ml, basePrediction, machineId, complexity, i + 1)
         IN IF i # complexity
               /\ altPrediction.recommendedWorker # basePrediction.recommendedWorker
            THEN << [worker |-> altPrediction.recommendedWorker,
                     complexity_adjusted |-> i,
                     estimated_time |-> altPrediction.estimatedTime,
                     reason |-> IF i < complexity THEN "Faster but less thorough"
                                ELSE "More thorough but slower"] >> \o rest
            ELSE rest

\* generateAlternatives returning every alternative it found
generateAlternativesUncapped(ml, basePrediction, reasoning) ==
    AlternativesFrom(ml, basePrediction,
                     MachineArg(reasoning.parameters.machineId),
                     reasoning.parameters.complexity, 1)

\* generateAlternatives returning the last two alternatives it found
generateAlternativesLast(ml, basePrediction, reasoning) ==
    LET all == AlternativesFrom(ml, basePrediction,
                                MachineArg(reasoning.parameters.machineId),
                                reasoning.parameters.complexity, 1)
    IN SubSeq(all, Max(1, Len(all) - 1), Len(all))

\* generateAlternatives(basePrediction, reasoning) against the ML system ml
generateAlternatives(ml, basePrediction, reasoning) ==
    LET all == AlternativesFrom(ml, basePrediction,
                                MachineArg(reasoning.parameters.machineId),
                                reasoning.parameters.complexity, 1)
    IN SubSeq(all, 1, Min(2, Len(all)))

\* a level that takes two factors for "medium"
RiskLevelStrict(n) == IF n <= 1 THEN "low" ELSE IF n = 2 THEN "medium" ELSE "high"

\* risks.length > 1 ? 'high' : risks.length > 0 ? 'medium' : 'low'
RiskLevel(n) == IF n = 0 THEN "low" ELSE IF n = 1 THEN "medium" ELSE "high"

assessRisk(prediction, reasoning) ==
    LET r1 == IF prediction.confidence < (7 * One) \div 10
              THEN <<"Low prediction confidence - consider gathering more data">>
              ELSE <<>>
        r2 == IF prediction.estimatedTime > 30 * TimeUnit
              THEN <<"Extended completion time - monitor progress closely">>
              ELSE <<>>
        r3 == IF includes(reasoning.explanation, "urgent")
                 /\ prediction.estimatedTime > 20 * TimeUnit
              THEN <<"Time constraint risk - consider alternative workers">>
              ELSE <<>>
        risks == r1 \o r2 \o r3
    IN [level |-> RiskLevel(Len(risks)), factors |-> risks]

NoRisk == [level |-> "", factors |-> <<>>]

\* the result of executeIntelligentAssignment
AssignmentResult(basePrediction, alternatives, reasoning) ==
    [type |-> "worker_assignment",
     base_prediction |-> basePrediction,
     ai_confidence |-> reasoning.confidence,
     contextual_score |-> calculateContextualScore(basePrediction, reasoning),
     alternative_workers |-> alternatives,
     risk_assessment |-> assessRisk(basePrediction, reasoning),
     ready |-> TRUE]

\* the results of the strategies that make no prediction; ready is
\* appService.getStatus().ready where the strategy reads it
OtherResult(approach, ready) ==
    [type |-> CASE approach = "performance_analysis" -> "performance_analysis"
                [] approach = "comprehensive_analytics" -> "comprehensive_analytics"
                [] approach = "adaptive_learning" -> "learning_enhancement"
                [] OTHER -> "general_assistance",
     base_prediction |-> NoPrediction(""),
     ai_confidence |-> 0,
     contextual_score |-> 0,
     alternative_workers |-> <<>>,
     risk_assessment |-> NoRisk,
     ready |-> IF approach \in {"performance_analysis", "comprehensive_analytics"}
               THEN ready ELSE TRUE]

NoResult == OtherResult("", TRUE)

(***************************************************************************)
(* Step 5: learnFromInteraction, in the three parts of its body.           *)
(***************************************************************************)
MaxInteractions == 1000
KeptInteractions == 800

\* learningData.interactions.push({...})
LearnPush(interactions, now, query, intent, result) ==
    Append(interactions,
           [timestamp |-> now, query |-> query, intent |-> intent.primary.type,
            result_type |-> result.type, confidence |-> intent.primary.confidence])

\* the pattern loop over the words from index i on: [patterns, threw];
\* an entry of the map is [isArray, items]
RECURSIVE LearnWordsFrom(_, _, _, _, _)
LearnWordsFrom(patterns, words, i, intentType, now) ==
    IF i > Len(words) THEN [patterns |-> patterns, threw |-> FALSE]
    ELSE IF Len(words[i]) <= 3
         THEN LearnWordsFrom(patterns, words, i + 1, intentType, now)
         ELSE LET word == words[i]
                  present == IF word \in DOMAIN patterns THEN patterns
                             ELSE (word :> [isArray |-> TRUE, items |-> <<>>])
                                  @@ patterns
              IN IF ~present[word].isArray
                 THEN [patterns |-> present, threw |-> TRUE]
                 ELSE LearnWordsFrom(
                        [present EXCEPT ![word].items =
                            Append(@, [intent |-> intentType, timestamp |-> now])],
                        words, i + 1, intentType, now)

LearnPatterns(patterns, query, intent, now) ==
    LearnWordsFrom(patterns, Facts(query).words, 1, intent.primary.type, now)

\* a limit that cuts as soon as the history is full
LearnTrimEager(interactions) ==
    IF Len(interactions) >= MaxInteractions
    THEN SubSeq(interactions, Len(interactions) - KeptInteractions + 1,
                Len(interactions))
    ELSE interactions

\* if (interactions.length > 1000) interactions = interactions.slice(-800)
LearnTrim(interactions) ==
    IF Len(interactions) > MaxInteractions
    THEN SubSeq(interactions, Len(interactions) - KeptInteractions + 1,
                Len(interactions))
    ELSE interactions

\* loadLearningData(): the pattern map after initialize()
LoadedPatterns == ("user_preferences" :> [isArray |-> FALSE, items |-> <<>>])



(***************************************************************************)
(* State of one /ai/query request.                                         *)
(***************************************************************************)
NoIntent ==
    [primary |-> [type |-> "", confidence |-> 0, matched_pattern |-> ""],
     secondary |-> <<>>, detected |-> 0]

NoReasoning ==
    [approach |-> "", confidence |-> 0, explanation |-> "", suggestions |-> <<>>,
     parameters |-> NoParameters]

\* what res.end() has sent: status 0 while nothing is sent; the body of a
\* 200 answer is the envelope, see Envelope
NoResponse == [status |-> 0, error |-> "", ai_suggestion |-> "", timestamp |-> 0]

NoModel == [trained |-> FALSE, snap |-> <<>>]

\* pc is the position of the request in processNaturalLanguageQuery;
\* context is the context it was called with; baseModel records the ML
\* system the base prediction was read from
IdleReq ==
    [pc |-> "idle", route |-> "/ai/query", conversation_id |-> "",
     query |-> "", context |-> EmptyObj, intent |-> NoIntent,
     extracted |-> EmptyObj,
     reasoning |-> NoReasoning, base |-> NoPrediction(""), baseModel |-> NoModel,
     result |-> NoResult, response |-> NoResponse]

\* the object processNaturalLanguageQuery returns for the request req
Envelope(req) ==
    [understood_intent |-> req.intent,
     context_analysis |-> req.extracted,
     reasoning |-> req.reasoning.explanation,
     result |-> req.result,
     confidence |-> req.reasoning.confidence,
     suggestions |-> req.reasoning.suggestions,
     timestamp |-> req.response.timestamp]

\* event loops that also switch inside enhancePredictionWithAI, and inside
\* learnFromInteraction
AwaitPointsInEnhance == {"execute", "alternatives", "learn", "respond", "done"}
AwaitPointsInLearn == {"execute", "learn", "learn_trim", "respond", "done"}

\* the positions at which a request has handed control back to the event
\* loop: the awaits of processNaturalLanguageQuery and the end of the handler
AwaitPoints == {"execute", "learn", "respond", "done"}

\* the request in slot r moves on to the state rec
Step(r, rec) ==
    /\ reqs' = [reqs EXCEPT ![r] = rec]
    /\ running' = IF rec.pc \in AwaitPoints THEN 0 ELSE r

\* the catch block of handleNaturalLanguageQuery
ErrorResponse(message) ==
    [status |-> 400,
     error |-> "Invalid query format: " \o message,
     ai_suggestion |-> "Please provide a natural language query about worker assignments",
     timestamp |-> 0]

\* the catch block of handleConversationalInteraction; suggestion is kept
\* in the field ai_suggestion
ConversationError ==
    [status |-> 400,
     error |-> "Invalid conversation format",
     ai_suggestion |-> "Provide a message for conversational interaction",
     timestamp |-> 0]

\* the answer of the catch block of the handler that serves req
Caught(req, message) ==
    IF req.route = "/ai/conversation" THEN ConversationError
    ELSE ErrorResponse(message)

\* an error thrown in the pipeline ends the request in the catch block
Throw(r, message) ==
    Step(r, [reqs[r] EXCEPT !.pc = "done",
                            !.response = Caught(reqs[r], message)])

\* extractUserContext(req)
UserContext ==
    JObj(("session_id" :> JStr("anonymous")) @@ ("timestamp" :> JNum(clock))
         @@ ("user_agent" :> JStr("")) @@ ("source" :> JStr("http_request")))

\* a request body: what JSON.parse(body) gives, parsed = FALSE when it throws
Body(obj) == [parsed |-> TRUE, obj |-> obj]
Unparseable == [parsed |-> FALSE, obj |-> JUndef]
QueryBody(q) == Body(JObj("query" :> JStr(q)))

\* the checks with (query === undefined) in place of (!query)
BodyErrorLenient(body) ==
    IF ~body.parsed THEN "Unexpected token in JSON"
    ELSE IF body.obj.t # "object" THEN "Cannot destructure property 'query'"
    ELSE IF Get(body.obj, "query") = JUndef THEN "Query field is required"
    ELSE ""

\* "" when the body passes the checks of handleNaturalLanguageQuery, else
\* the message of the error it raises before the pipeline starts
BodyError(body) ==
    IF ~body.parsed THEN "Unexpected token in JSON"
    ELSE IF body.obj.t # "object" THEN "Cannot destructure property 'query'"
    ELSE IF ~Truthy(Get(body.obj, "query")) THEN "Query field is required"
    ELSE ""

\* step 2 of processNaturalLanguageQuery for the request state req
Extracted(req) ==
    [req EXCEPT !.extracted = extractContextFromQuery(req.query, req.context)]

\* a step 3 that trusts the strategy fully once the store holds an
\* interaction with the same query
ReasonFromHistory(req) ==
    [req EXCEPT
       !.pc = "execute",
       !.reasoning =
           [reasonAboutQuery(req.intent, req.extracted) EXCEPT
              !.confidence =
                  IF \E i \in DOMAIN learningData.interactions :
                        learningData.interactions[i].query = req.query
                  THEN One ELSE @]]

\* step 3 for the request state req: an error raised in it ends the
\* request in the catch block
Reason(req) ==
    IF FactorsThrow(req.extracted)
    THEN [req EXCEPT !.pc = "done",
                     !.response = Caught(req,
                         "Cannot read properties of null (reading 'weight')")]
    ELSE [req EXCEPT !.pc = "execute",
                     !.reasoning = reasonAboutQuery(req.intent, req.extracted)]

Reasoned(req) == Reason(Extracted(req))

(***************************************************************************)
(* POST /ai/query: handleNaturalLanguageQuery and steps 1 to 3 of          *)
(* processNaturalLanguageQuery.  The awaits inside step 3 read no shared   *)
(* state, so the request yields once, with its reasoning complete.         *)
(***************************************************************************)
HandleNaturalLanguageQuery(r, body, random) ==
    /\ running = 0
    /\ r = nreq + 1
    /\ r \in DOMAIN reqs
    /\ reqs[r].pc = "idle"
    /\ nreq' = nreq + 1
    /\ LET query == Get(body.obj, "query")
           context == IF Get(body.obj, "context").t = "undefined"
                      THEN EmptyObj ELSE Get(body.obj, "context")
       IN IF BodyError(body) # "" THEN Throw(r, BodyError(body))
          ELSE IF query.t # "string"
          THEN Throw(r, "query.toLowerCase is not a function")
          ELSE \E draws \in [1..Len(Facts(query.v).hits) -> random] :
                 Step(r, Reasoned([reqs[r] EXCEPT
                                      !.query = query.v,
                                      !.context = Spread(context, UserContext),
                                      !.intent = analyzeIntent(query.v, draws)]))
    /\ UNCHANGED <<trainingData, isModelTrained, snapshot, toolResp,
                   learningData, clock, nadd,
                   mcpInteractions, mcpHistory, nlog,
                   conversationHistory>>

CanRun(r) == running = 0 \/ running = r

\* executeIntelligentAssignment up to the call of enhancePredictionWithAI
ExecuteIntelligentAssignment(r) ==
    /\ CanRun(r)
    /\ reqs[r].pc = "execute"
    /\ reqs[r].reasoning.approach = "intelligent_worker_assignment"
    /\ LET p == reqs[r].reasoning.parameters
           basePrediction == predictWorkerML(mlSystem, MachineArg(p.machineId),
                                             p.complexity)
       IN IF ~basePrediction.ok THEN Throw(r, basePrediction.error)
          ELSE Step(r, [reqs[r] EXCEPT !.pc = "alternatives",
                                       !.base = basePrediction,
                                       !.baseModel = mlSystem])
    /\ UNCHANGED <<trainingData, isModelTrained, snapshot, toolResp,
                   learningData, clock, nreq, nadd,
                   mcpInteractions, mcpHistory, nlog,
                   conversationHistory>>

\* enhancePredictionWithAI: generateAlternatives reads the ML system again
EnhancePredictionWithAI(r) ==
    /\ CanRun(r)
    /\ reqs[r].pc = "alternatives"
    /\ Step(r, [reqs[r] EXCEPT
                  !.pc = "learn",
                  !.result = AssignmentResult(
                                reqs[r].base,
                                generateAlternatives(mlSystem, reqs[r].base,
                                                     reqs[r].reasoning),
                                reqs[r].reasoning)])
    /\ UNCHANGED <<trainingData, isModelTrained, snapshot, toolResp,
                   learningData, clock, nreq, nadd,
                   mcpInteractions, mcpHistory, nlog,
                   conversationHistory>>

\* executePerformanceAnalysis, executeAnalytics, executeLearning,
\* executeGeneralAssistance
ExecuteOtherAction(r) ==
    /\ CanRun(r)
    /\ reqs[r].pc = "execute"
    /\ reqs[r].reasoning.approach # "intelligent_worker_assignment"
    /\ Step(r, [reqs[r] EXCEPT
                  !.pc = "learn",
                  !.result = OtherResult(reqs[r].reasoning.approach, isModelTrained)])
    /\ UNCHANGED <<trainingData, isModelTrained, snapshot, toolResp,
                   learningData, clock, nreq, nadd,
                   mcpInteractions, mcpHistory, nlog,
                   conversationHistory>>

\* learnFromInteraction: the push of the interaction record
LearnAppend(r) ==
    /\ CanRun(r)
    /\ reqs[r].pc = "learn"
    /\ learningData' = [learningData EXCEPT !.interactions =
           LearnPush(@, clock, reqs[r].query, reqs[r].intent, reqs[r].result)]
    /\ Step(r, [reqs[r] EXCEPT !.pc = "learn_patterns"])
    /\ UNCHANGED <<trainingData, isModelTrained, snapshot, toolResp, clock,
                   nreq, nadd,
                   mcpInteractions, mcpHistory, nlog,
                   conversationHistory>>

\* learnFromInteraction: the pattern loop; push on an entry that is no
\* array raises a TypeError, which ends the request in the catch block
LearnExtract(r) ==
    /\ CanRun(r)
    /\ reqs[r].pc = "learn_patterns"
    /\ LET out == LearnPatterns(learningData.patterns, reqs[r].query,
                                reqs[r].intent, clock)
       IN /\ learningData' = [learningData EXCEPT !.patterns = out.patterns]
          /\ IF out.threw
             THEN Throw(r, "this.learningData.patterns.get(...).push is not a function")
             ELSE Step(r, [reqs[r] EXCEPT !.pc = "learn_trim"])
    /\ UNCHANGED <<trainingData, isModelTrained, snapshot, toolResp, clock,
                   nreq, nadd,
                   mcpInteractions, mcpHistory, nlog,
                   conversationHistory>>

\* learnFromInteraction: the limit on the stored interactions
LearnLimit(r) ==
    /\ CanRun(r)
    /\ reqs[r].pc = "learn_trim"
    /\ learningData' = [learningData EXCEPT !.interactions = LearnTrim(@)]
    /\ clock' = clock + 1
    /\ Step(r, [reqs[r] EXCEPT !.pc = "respond"])
    /\ UNCHANGED <<trainingData, isModelTrained, snapshot, toolResp, nreq, nadd,
                   mcpInteractions, mcpHistory, nlog,
                   conversationHistory>>

\* step 6 and res.end(JSON.stringify(aiResponse))
Respond(r) ==
    /\ CanRun(r)
    /\ reqs[r].pc = "respond"
    /\ reqs[r].route = "/ai/query"
    /\ Step(r, [reqs[r] EXCEPT
                  !.pc = "done",
                  !.response = [NoResponse EXCEPT !.status = 200,
                                                  !.timestamp = clock]])
    /\ UNCHANGED <<trainingData, isModelTrained, snapshot, toolResp,
                   learningData, clock, nreq, nadd,
                   mcpInteractions, mcpHistory, nlog,
                   conversationHistory>>


(***************************************************************************)
(* WorkerAssignmentMCPServer: POST /mcp/tools/call.  A handler has no      *)
(* await before its last statement, so a tool call is one step.            *)
(***************************************************************************)
\* kind is "tool" for /mcp/tools/call and "resource" for /mcp/resources/;
\* force is the argument a retrain_model call came with
NoToolResp ==
    [kind |-> "", name |-> "", ok |-> TRUE, error |-> "",
     prediction |-> NoPrediction(""), added |-> 0, retrained |-> FALSE,
     force |-> FALSE]

\* the http layer: {result} on success, {error: error.message} on a throw
ToolOk(name) == [NoToolResp EXCEPT !.kind = "tool", !.name = name]
ToolError(name, message) ==
    [NoToolResp EXCEPT !.kind = "tool", !.name = name, !.ok = FALSE,
                       !.error = message]

\* the names of the switch in callTool, and the uris of the switch in
\* getResource
ToolNames ==
    { "predict_worker_assignment", "get_worker_performance",
      "get_system_analytics", "add_training_data", "retrain_model" }

ResourceUris ==
    { "worker-assignment://analytics/dashboard",
      "worker-assignment://data/training-summary",
      "worker-assignment://model/status" }

\* a callTool that answers a name it does not know with an empty result
callToolLenient(name) ==
    /\ running = 0
    /\ name \notin ToolNames
    /\ toolResp' = ToolOk(name)
    /\ UNCHANGED <<trainingData, isModelTrained, snapshot, learningData, reqs,
                   running, clock, nreq, nadd,
                   mcpInteractions, mcpHistory, nlog,
                   conversationHistory>>

\* callTool(name, args), the default case of the switch
callToolUnknown(name) ==
    /\ running = 0
    /\ name \notin ToolNames
    /\ toolResp' = ToolError(name, "Unknown tool: " \o name)
    /\ UNCHANGED <<trainingData, isModelTrained, snapshot, learningData, reqs,
                   running, clock, nreq, nadd,
                   mcpInteractions, mcpHistory, nlog,
                   conversationHistory>>

\* getResource(uri): the three resources read the services, the default
\* case throws
getResource(uri) ==
    /\ running = 0
    /\ toolResp' = [NoToolResp EXCEPT
                      !.kind = "resource", !.name = uri,
                      !.ok = (uri \in ResourceUris),
                      !.error = IF uri \in ResourceUris THEN ""
                                ELSE "Unknown resource: " \o uri]
    /\ UNCHANGED <<trainingData, isModelTrained, snapshot, learningData, reqs,
                   running, clock, nreq, nadd,
                   mcpInteractions, mcpHistory, nlog,
                   conversationHistory>>

\* mlSystem.train(): the model is rebuilt from the raw store
Train ==
    /\ snapshot' = trainingData'
    /\ isModelTrained' = TRUE

handlePredictWorkerAssignment(machineId, complexity) ==
    /\ running = 0
    /\ LET prediction == predictWorkerML(mlSystem, machineId, complexity)
       IN toolResp' = IF prediction.ok
                      THEN [ToolOk("predict_worker_assignment") EXCEPT
                                !.prediction = prediction]
                      ELSE ToolError("predict_worker_assignment", prediction.error)
    /\ UNCHANGED <<trainingData, isModelTrained, snapshot, learningData, reqs,
                   running, clock, nreq, nadd,
                   mcpInteractions, mcpHistory, nlog,
                   conversationHistory>>

\* add_training_data that trains whatever the retrain flag says
handleAddTrainingDataEager(data, retrain) ==
    /\ running = 0
    /\ nadd < MaxAdds
    /\ nadd' = nadd + 1
    /\ trainingData' = addHistoricalData(trainingData, data)
    /\ Train
    /\ toolResp' = [ToolOk("add_training_data") EXCEPT
                        !.added = Len(data), !.retrained = retrain]
    /\ UNCHANGED <<learningData, reqs, running, clock, nreq,
                   mcpInteractions, mcpHistory, nlog,
                   conversationHistory>>

\* retrained: whether the answer reports "Model Retrained: Yes"
handleAddTrainingData(data, retrain) ==
    /\ running = 0
    /\ nadd < MaxAdds
    /\ nadd' = nadd + 1
    /\ trainingData' = addHistoricalData(trainingData, data)
    /\ IF retrain THEN Train ELSE UNCHANGED <<snapshot, isModelTrained>>
    /\ toolResp' = [ToolOk("add_training_data") EXCEPT
                        !.added = Len(data), !.retrained = retrain]
    /\ UNCHANGED <<learningData, reqs, running, clock, nreq,
                   mcpInteractions, mcpHistory, nlog,
                   conversationHistory>>

\* retrain_model that trains whatever the force flag says
handleRetrainModelAlways(force) ==
    /\ running = 0
    /\ UNCHANGED trainingData
    /\ Train
    /\ toolResp' = [ToolOk("retrain_model") EXCEPT !.retrained = TRUE,
                                                   !.force = force]
    /\ UNCHANGED <<learningData, reqs, running, clock, nreq, nadd,
                   mcpInteractions, mcpHistory, nlog,
                   conversationHistory>>

handleRetrainModel(force) ==
    /\ running = 0
    /\ UNCHANGED trainingData
    /\ IF ~force /\ isModelTrained
       THEN /\ UNCHANGED <<snapshot, isModelTrained>>
            /\ toolResp' = [ToolOk("retrain_model") EXCEPT !.force = force]
       ELSE /\ Train
            /\ toolResp' = [ToolOk("retrain_model") EXCEPT !.retrained = TRUE,
                                                           !.force = force]
    /\ UNCHANGED <<learningData, reqs, running, clock, nreq, nadd,
                   mcpInteractions, mcpHistory, nlog,
                   conversationHistory>>

(***************************************************************************)
(* MCPService: the log of MCP interactions.                                *)
(***************************************************************************)
maxInteractionHistory == 100

\* Array.prototype.slice(start): a negative start counts from the end
slice(arr, start) ==
    LET from == IF start < 0 THEN Max(Len(arr) + start, 0)
                ELSE Min(start, Len(arr))
    IN SubSeq(arr, from + 1, Len(arr))

\* Array.prototype.reverse()
reverse(arr) == [i \in 1..Len(arr) |-> arr[Len(arr) + 1 - i]]

NoHistory == [limit |-> 0, entries |-> <<>>]

\* logInteraction(type, data); the timestamp identifies the interaction
logInteraction(type) ==
    /\ running = 0
    /\ nlog < MaxLogs
    /\ nlog' = nlog + 1
    /\ LET pushed == Append(mcpInteractions, [timestamp |-> clock, type |-> type])
       IN mcpInteractions' =
             IF Len(pushed) > maxInteractionHistory
             THEN slice(pushed, -maxInteractionHistory)
             ELSE pushed
    /\ clock' = clock + 1
    /\ UNCHANGED <<trainingData, isModelTrained, snapshot, toolResp,
                   learningData, reqs, running, nreq, nadd, mcpHistory,
                   conversationHistory>>

\* getInteractionHistory(limit)
getInteractionHistory(limit) ==
    /\ running = 0
    /\ mcpHistory' = [limit |-> limit,
                      entries |-> reverse(slice(mcpInteractions, -limit))]
    /\ UNCHANGED <<trainingData, isModelTrained, snapshot, toolResp,
                   learningData, reqs, running, clock, nreq, nadd,
                   mcpInteractions, nlog,
                   conversationHistory>>

\* cleanup(): this.interactions = []
cleanup ==
    /\ running = 0
    /\ mcpInteractions' = <<>>
    /\ UNCHANGED <<trainingData, isModelTrained, snapshot, toolResp,
                   learningData, reqs, running, clock, nreq, nadd,
                   mcpHistory, nlog,
                   conversationHistory>>

(***************************************************************************)
(* POST /ai/conversation: handleConversationalInteraction.  The handler    *)
(* stores the message, runs processNaturalLanguageQuery and stores the     *)
(* reply.  A conversation id without entries has the empty history.        *)
(***************************************************************************)
ConversationIds == {"default", "shift-2"}

JArr(seq) == [t |-> "array", v |-> seq]

\* the stored reply stands for generateNaturalResponse(query, ...)
UserEntry(message) == [role |-> "user", message |-> message]
AssistantEntry(query) ==
    [role |-> "assistant", message |-> [t |-> "response", v |-> query]]

HandleConversationalInteraction(r, body, random) ==
    /\ running = 0
    /\ r = nreq + 1
    /\ r \in DOMAIN reqs
    /\ reqs[r].pc = "idle"
    /\ nreq' = nreq + 1
    /\ IF ~body.parsed
       THEN /\ Step(r, [reqs[r] EXCEPT !.route = "/ai/conversation",
                                       !.pc = "done",
                                       !.response = ConversationError])
            /\ UNCHANGED conversationHistory
       ELSE LET message == Get(body.obj, "message")
                conversation_id ==
                    IF Get(body.obj, "conversation_id").t = "undefined"
                    THEN "default" ELSE Get(body.obj, "conversation_id").v
                pushed == Append(conversationHistory[conversation_id],
                                 UserEntry(message))
                req == [reqs[r] EXCEPT !.route = "/ai/conversation",
                                       !.conversation_id = conversation_id]
            IN /\ conversationHistory' =
                     [conversationHistory EXCEPT ![conversation_id] = pushed]
               /\ IF message.t # "string"
                  THEN Step(r, [req EXCEPT !.pc = "done",
                                           !.response = ConversationError])
                  ELSE \E draws \in [1..Len(Facts(message.v).hits) -> random] :
                         Step(r, Reasoned([req EXCEPT
                            !.query = message.v,
                            !.context =
                                Spread(UserContext,
                                       JObj("conversation_history" :>
                                               JArr(slice(pushed, -5)))),
                            !.intent = analyzeIntent(message.v, draws)]))
    /\ UNCHANGED <<trainingData, isModelTrained, snapshot, toolResp,
                   learningData, clock, nadd, mcpInteractions, mcpHistory,
                   nlog>>

\* the reply is stored and the request is answered
RespondConversation(r) ==
    /\ CanRun(r)
    /\ reqs[r].pc = "respond"
    /\ reqs[r].route = "/ai/conversation"
    /\ conversationHistory' =
          [conversationHistory EXCEPT
             ![reqs[r].conversation_id] = Append(@, AssistantEntry(reqs[r].query))]
    /\ Step(r, [reqs[r] EXCEPT
                  !.pc = "done",
                  !.response = [NoResponse EXCEPT !.status = 200,
                                                  !.timestamp = clock]])
    /\ UNCHANGED <<trainingData, isModelTrained, snapshot, toolResp,
                   learningData, clock, nreq, nadd, mcpInteractions,
                   mcpHistory, nlog>>

(***************************************************************************)
(* Initial states: AppService.initialize() has loaded and trained on the   *)
(* historical data, or has failed and left the ML system untrained.        *)
(***************************************************************************)
InitML(files) ==
    \/ \E data \in files :
         /\ trainingData = data
         /\ snapshot = data
         /\ isModelTrained = TRUE
    \/ /\ trainingData = <<>>
       /\ snapshot = <<>>
       /\ isModelTrained = FALSE

InitServer(slots) ==
    /\ conversationHistory = [id \in ConversationIds |-> <<>>]
    /\ mcpInteractions = <<>>
    /\ mcpHistory = NoHistory
    /\ nlog = 0
    /\ toolResp = NoToolResp
    /\ reqs = [r \in slots |-> IdleReq]
    /\ running = 0
    /\ nreq = 0
    /\ nadd = 0

\* the learning store after loadLearningData()
InitLearning ==
    /\ learningData = [interactions |-> <<>>, patterns |-> LoadedPatterns]
    /\ clock = 1

Pipeline(r) ==
    \/ ExecuteIntelligentAssignment(r)
    \/ EnhancePredictionWithAI(r)
    \/ ExecuteOtherAction(r)
    \/ LearnAppend(r)
    \/ LearnExtract(r)
    \/ LearnLimit(r)
    \/ Respond(r)

(***************************************************************************)
(* Spec: /ai/query requests against a fixed model.                         *)
(***************************************************************************)
Bodies ==
    { QueryBody("Who should work on Machine 1 for an urgent precision job?"),
      QueryBody("recommend a worker for a simple job on machine 1"),
      QueryBody("best worker for machine 0"),
      QueryBody("assign a worker to machine 7"),
      QueryBody("who can handle machine 3"),
      QueryBody("best worker for machine 2 or machine 1"),
      QueryBody("best worker for machine 12"),
      QueryBody("best worker for the machine shop, machine 4"),
      QueryBody("urgent precision job on Machine 1"),
      QueryBody("URGENT: who should work on machine 1"),
      QueryBody("what is the status"),
      QueryBody(""),
      Body(EmptyObj),
      Unparseable }

Init ==
    /\ InitML({HistoricalData, SmallData})
    /\ InitServer(1..MaxRequests)
    /\ InitLearning

Next ==
    \/ \E r \in 1..MaxRequests, body \in Bodies :
         HandleNaturalLanguageQuery(r, body, RandomDraws)
    \/ \E r \in 1..MaxRequests : Pipeline(r)

Spec == Init /\ [][Next]_vars

(***************************************************************************)
(* SpecRetrain: an assignment request while tools change the model.        *)
(***************************************************************************)
RetrainBodies ==
    { QueryBody("recommend a worker for a simple job on machine 1") }

NewData == { <<Rec("Worker_B", 1, 14, 97)>> }

NextRetrain ==
    \/ \E r \in 1..MaxRequests, body \in RetrainBodies :
         HandleNaturalLanguageQuery(r, body, RandomDraws)
    \/ \E r \in 1..MaxRequests :
         \/ ExecuteIntelligentAssignment(r)
         \/ EnhancePredictionWithAI(r)
         \/ LearnAppend(r)
         \/ LearnExtract(r)
         \/ LearnLimit(r)
         \/ Respond(r)
    \/ \E data \in NewData, retrain \in BOOLEAN : handleAddTrainingData(data, retrain)
    \/ \E force \in BOOLEAN : handleRetrainModel(force)

SpecRetrain == Init /\ [][NextRetrain]_vars

(***************************************************************************)
(* SpecTools: the tool calls alone.                                        *)
(***************************************************************************)
ToolMachines == {0, 1, 2, 3, 10}
ToolComplexities == {1, 3, 5}
ToolData == { <<Rec("w9", 2, 30, 95)>>, <<Rec("Worker_B", 1, 14, 97)>> }

\* names and uris a client may send
CalledNames == { "nonexistent_tool", "worker-assignment://model/status" }
CalledUris ==
    { "worker-assignment://model/status", "worker-assignment://model/history",
      "retrain_model" }

NextTools ==
    \/ \E m \in ToolMachines, c \in ToolComplexities :
         handlePredictWorkerAssignment(m, c)
    \/ \E data \in ToolData, retrain \in BOOLEAN : handleAddTrainingData(data, retrain)
    \/ \E force \in BOOLEAN : handleRetrainModel(force)
    \/ \E name \in CalledNames : callToolUnknown(name)
    \/ \E uri \in CalledUris : getResource(uri)

SpecTools == Init /\ [][NextTools]_vars

(***************************************************************************)
(* SpecLearn: concurrent analytics and learning requests on a learning     *)
(* store that is about to reach its limit.  The store holds the            *)
(* interactions of n earlier requests for "what is the status".            *)
(***************************************************************************)
Preloads == {MaxInteractions - 1, MaxInteractions}

PastQuery == "what is the status"

PastInteractions(n) ==
    [i \in 1..n |-> [timestamp |-> i, query |-> PastQuery, intent |-> "analytics",
                     result_type |-> "comprehensive_analytics",
                     confidence |-> 80000]]

PastPatterns(n) ==
    LET items == [i \in 1..n |-> [intent |-> "analytics", timestamp |-> i]]
    IN ("what" :> [isArray |-> TRUE, items |-> items])
       @@ ("status" :> [isArray |-> TRUE, items |-> items])
       @@ LoadedPatterns

LearnBodies ==
    { QueryBody("what is the status"),
      QueryBody("give feedback"),
      QueryBody("show user_preferences status") }

InitLearn ==
    /\ trainingData = HistoricalData
    /\ snapshot = HistoricalData
    /\ isModelTrained = TRUE
    /\ InitServer(1..MaxLearners)
    /\ \E n \in Preloads :
         /\ learningData = [interactions |-> PastInteractions(n),
                            patterns |-> PastPatterns(n)]
         /\ clock = n + 1

NextLearn ==
    \/ \E r \in 1..MaxLearners, body \in LearnBodies :
         HandleNaturalLanguageQuery(r, body, {0})
    \/ \E r \in 1..MaxLearners :
         \/ ExecuteOtherAction(r)
         \/ LearnAppend(r)
         \/ LearnExtract(r)
         \/ LearnLimit(r)
         \/ Respond(r)

SpecLearn == InitLearn /\ [][NextLearn]_vars

(***************************************************************************)
(* SpecMcp: MCPService logs interactions, answers history requests and is  *)
(* cleaned up.  The log holds the interactions of n earlier calls.         *)
(***************************************************************************)
LoggedBefore == {0, 3, maxInteractionHistory - 1, maxInteractionHistory}

InteractionTypes == {"prediction_request", "prediction_response"}

Limits == {0, 1, 5, 10, 150}

PastLog(n) == [i \in 1..n |-> [timestamp |-> i, type |-> "prediction_request"]]

InitMcp ==
    /\ trainingData = HistoricalData
    /\ snapshot = HistoricalData
    /\ isModelTrained = TRUE
    /\ toolResp = NoToolResp
    /\ reqs = [r \in 1..MaxRequests |-> IdleReq]
    /\ running = 0
    /\ nreq = 0
    /\ nadd = 0
    /\ learningData = [interactions |-> <<>>, patterns |-> LoadedPatterns]
    /\ mcpHistory = NoHistory
    /\ nlog = 0
    /\ conversationHistory = [id \in ConversationIds |-> <<>>]
    /\ \E n \in LoggedBefore :
         /\ mcpInteractions = PastLog(n)
         /\ clock = n + 1

NextMcp ==
    \/ \E type \in InteractionTypes : logInteraction(type)
    \/ \E limit \in Limits : getInteractionHistory(limit)
    \/ cleanup

SpecMcp == InitMcp /\ [][NextMcp]_vars

(***************************************************************************)
(* SpecConversation: /ai/conversation requests, some of them concurrent.   *)
(***************************************************************************)
MessageBody(message, id) ==
    Body(JObj(("message" :> JStr(message)) @@ ("conversation_id" :> JStr(id))))

ConversationBodies ==
    { Body(JObj("message" :> JStr("what is the status"))),
      MessageBody("who can handle machine 3", "shift-2"),
      MessageBody("show user_preferences status", "default"),
      Body(EmptyObj),
      Unparseable }

InitConversation ==
    /\ trainingData = HistoricalData
    /\ snapshot = HistoricalData
    /\ isModelTrained = TRUE
    /\ InitServer(1..MaxLearners)
    /\ InitLearning

NextConversation ==
    \/ \E r \in 1..MaxLearners, body \in ConversationBodies :
         HandleConversationalInteraction(r, body, {0})
    \/ \E r \in 1..MaxLearners :
         \/ ExecuteIntelligentAssignment(r)
         \/ EnhancePredictionWithAI(r)
         \/ ExecuteOtherAction(r)
         \/ LearnAppend(r)
         \/ LearnExtract(r)
         \/ LearnLimit(r)
         \/ RespondConversation(r)

SpecConversation == InitConversation /\ [][NextConversation]_vars

(***************************************************************************)
(* SpecContext: /ai/query requests that carry a context of their own.      *)
(***************************************************************************)
ContextBody(q, context) ==
    Body(JObj(("query" :> JStr(q)) @@ ("context" :> context)))

Factor(factor, weight) ==
    JObj(("factor" :> JStr(factor)) @@ ("weight" :> JNum(weight)))

Factors(entries) == JObj("environmental_factors" :> entries)
Requirements(entries) == JObj("requirements" :> entries)

\* weights in tenths
ContextBodies ==
    { ContextBody("recommend a worker for a simple job on machine 1", EmptyObj),
      ContextBody("recommend a worker for a simple job on machine 1",
                  Factors(JObj("timeContext" :> JNull))),
      ContextBody("recommend a worker for a simple job on machine 1",
                  Factors(JObj("timeContext" :> Factor("night_shift", 30)))),
      ContextBody("recommend a worker for a simple job on machine 1",
                  Factors(JObj("workloadContext" :> Factor("overload", -20)))),
      ContextBody("recommend a worker for a simple job on machine 1",
                  Factors(JObj(("timeContext" :> Factor("slow", 5))
                               @@ ("qualityContext" :> Factor("draft", 1))))),
      ContextBody("recommend a worker for a simple job on machine 1",
                  Factors(JObj("timeContext" :> Factor("urgent_delivery", 10)))),
      ContextBody("recommend a worker for a simple job on machine 1",
                  Requirements(JObj("qualityFocus" :> JStr("high")))),
      ContextBody("recommend a worker",
                  Factors(JObj("urgency" :> JStr("high")))),
      ContextBody("recommend a worker",
                  Requirements(JObj("machineId" :> JNum(4)))),
      ContextBody("recommend a worker", Requirements(JNull)),
      ContextBody("recommend a worker for production this morning", EmptyObj),
      ContextBody("recommend a worker for production this morning",
                  Factors(JStr("none"))),
      ContextBody("Who should work on Machine 1 for an urgent precision job?",
                  EmptyObj),
      ContextBody("what is the status",
                  Factors(JObj("workloadContext" :> Factor("overload", -20)))),
      ContextBody("what is the status",
                  Factors(JObj("timeContext" :> JNull))) }

InitContext ==
    /\ \E data \in {HistoricalData, SteadyData} :
         /\ trainingData = data
         /\ snapshot = data
    /\ isModelTrained = TRUE
    /\ InitServer(1..MaxRequests)
    /\ InitLearning

NextContext ==
    \/ \E r \in 1..MaxRequests, body \in ContextBodies :
         HandleNaturalLanguageQuery(r, body, {0})
    \/ \E r \in 1..MaxRequests : Pipeline(r)

SpecContext == InitContext /\ [][NextContext]_vars

(***************************************************************************)
(* SpecStore: requests against learning stores of different content, with  *)
(* and without training records that wait for the next training pass.      *)
(***************************************************************************)
StoreLoads == {0, 2}

StoreBodies ==
    { QueryBody("what is the status"),
      QueryBody("give feedback"),
      QueryBody("show user_preferences status") }

\* the records add_training_data has stored without a training pass
PendingData == { <<>>, <<Rec("Worker_B", 1, 14, 97)>> }

InitStore ==
    /\ snapshot = HistoricalData
    /\ \E added \in PendingData : trainingData = HistoricalData \o added
    /\ isModelTrained = TRUE
    /\ InitServer(1..MaxLearners)
    /\ \E n \in StoreLoads :
         /\ learningData = [interactions |-> PastInteractions(n),
                            patterns |-> IF n = 0 THEN LoadedPatterns
                                         ELSE PastPatterns(n)]
         /\ clock = n + 1

NextStore ==
    \/ \E r \in 1..MaxLearners, body \in StoreBodies :
         HandleNaturalLanguageQuery(r, body, {0})
    \/ \E r \in 1..MaxLearners :
         \/ ExecuteOtherAction(r)
         \/ LearnAppend(r)
         \/ LearnExtract(r)
         \/ LearnLimit(r)
         \/ Respond(r)

SpecStore == InitStore /\ [][NextStore]_vars

(***************************************************************************)
(* Properties.                                                             *)
(***************************************************************************)
\* the requests that have an assignment result
Assigned == {r \in DOMAIN reqs : reqs[r].result.type = "worker_assignment"}

\* C1: the alternative_workers of an assignment result has at most 2 entries
\* and none of them names the worker of the base prediction (Spec)
C1_AlternativesBounded ==
    \A r \in Assigned :
        LET alts == reqs[r].result.alternative_workers
        IN /\ Len(alts) <= 2
           /\ \A i \in 1..Len(alts) :
                alts[i].worker # reqs[r].base.recommendedWorker

\* two alternatives were returned where three complexity levels had another
\* worker than the base prediction
C1_Witness ==
    \E r \in Assigned :
        /\ Len(reqs[r].result.alternative_workers) = 2
        /\ Len(AlternativesFrom(reqs[r].baseModel, reqs[r].base,
                                MachineArg(reqs[r].reasoning.parameters.machineId),
                                reqs[r].reasoning.parameters.complexity, 1)) > 2

\* C2: the risk level is "low" iff there is no risk factor, "medium" iff
\* there is exactly one, "high" iff there are two or more (Spec)
C2_RiskLevelByCount ==
    \A r \in Assigned :
        LET risk == reqs[r].result.risk_assessment
            n == Len(risk.factors)
        IN /\ risk.level = "low" <=> n = 0
           /\ risk.level = "medium" <=> n = 1
           /\ risk.level = "high" <=> n >= 2

C2_Witness ==
    /\ \E r \in Assigned :
         /\ reqs[r].result.risk_assessment.level = "high"
         /\ Len(reqs[r].result.risk_assessment.factors) = 3
    /\ isModelTrained

\* C3: the primary intent type of a query is the one analyzeIntent gives for
\* that text whatever Math.random() returns, and it is "assignment" for the
\* urgent precision job on Machine 1 (Spec)
C3_PrimaryIntentDeterministic ==
    \A r \in DOMAIN reqs :
        reqs[r].intent # NoIntent =>
            LET hits == Facts(reqs[r].query).hits
                again == analyzeIntent(reqs[r].query, [k \in 1..Len(hits) |-> 0])
            IN /\ reqs[r].intent.primary.type = again.primary.type
               /\ reqs[r].query = "Who should work on Machine 1 for an urgent precision job?"
                    => reqs[r].intent.primary.type = "assignment"

\* C4: between handlers the history holds at most 1000 interactions; the
\* limit step cuts a history of 1001 to its last 800 entries in order and
\* leaves a shorter one alone, and the last entry is then the interaction
\* of the request that recorded it (SpecLearn)
C4_HistoryCapped ==
    /\ [](running = 0 => Len(learningData.interactions) <= 1000)
    /\ [][\A r \in DOMAIN reqs :
            reqs[r].pc = "learn_trim" /\ reqs'[r].pc = "respond" =>
               LET before == learningData.interactions
                   after == learningData'.interactions
               IN /\ Len(before) <= 1001
                  /\ after = IF Len(before) = 1001
                             THEN [i \in 1..800 |-> before[i + 201]]
                             ELSE before
                  /\ after[Len(after)].query = reqs[r].query
                  /\ after[Len(after)].timestamp = clock]_vars

\* the 1001st interaction has been recorded and 800 are kept
C4_Witness ==
    /\ running = 0
    /\ Len(learningData.interactions) = 800
    /\ learningData.interactions[1].timestamp = 202
    /\ learningData.interactions[800].timestamp = 1001

\* what the ML system ml predicts for every machine and complexity
Predictions(ml) ==
    [m \in Machines, c \in Complexities |-> predictWorkerML(ml, m, c)]

\* C5: a tool call changes the predictions only if it reports a training
\* pass, and after a training pass the predictions are those of the records
\* in the store (SpecTools)
C5_VisibleAfterTraining ==
    /\ [][Predictions([trained |-> isModelTrained', snap |-> snapshot'])
            # Predictions(mlSystem) => toolResp'.retrained]_vars
    /\ [](toolResp.retrained =>
            Predictions(mlSystem) =
               [m \in Machines, c \in Complexities |-> PredictFrom(trainingData, m, c)])

\* records were added without a training pass and the predictions are
\* still not those of the store
C5_Witness ==
    /\ toolResp.name = "add_training_data"
    /\ ~toolResp.retrained
    /\ isModelTrained
    /\ predictWorkerML(mlSystem, 2, 3).jobCount # PredictFrom(trainingData, 2, 3).jobCount

\* C6: the alternatives of an assignment result are those of the ML system
\* the base prediction was read from (SpecRetrain)
C6_OneSnapshotPerRequest ==
    \A r \in Assigned :
        reqs[r].result.alternative_workers =
            generateAlternatives(reqs[r].baseModel, reqs[r].base, reqs[r].reasoning)

\* the model was retrained while the request was in flight, and the new
\* model has other alternatives
C6_Witness ==
    \E r \in Assigned :
        /\ reqs[r].pc = "learn"
        /\ reqs[r].baseModel # mlSystem
        /\ reqs[r].result.alternative_workers #
              generateAlternatives(mlSystem, reqs[r].base, reqs[r].reasoning)

\* the length of the history after n interactions recorded one by one
SequentialLength(n) ==
    IF n <= 1000 THEN n ELSE 800 + ((n - 1001) % 201)

\* C7: a request inside learnFromInteraction is the one that is running;
\* between handlers the history has at most 1000 entries, holds the
\* interactions recorded last in the order of recording, each once, has the
\* length of a sequential recording, and the latest interactions have their
\* pattern entries (SpecLearn)
C7_LearningSerialized ==
    /\ \A r \in DOMAIN reqs :
         reqs[r].pc \in {"learn_patterns", "learn_trim"} => running = r
    /\ running = 0 =>
         LET h == learningData.interactions
         IN /\ Len(h) <= 1000
            /\ \A i \in 1..(Len(h) - 1) : h[i + 1].timestamp = h[i].timestamp + 1
            /\ Len(h) > 0 => h[Len(h)].timestamp = clock - 1
            /\ Len(h) = SequentialLength(clock - 1)
            /\ \A i \in Max(1, Len(h) - MaxLearners + 1)..Len(h) :
                 \A k \in DOMAIN Facts(h[i].query).words :
                    LET word == Facts(h[i].query).words[k]
                    IN Len(word) > 3 =>
                         /\ word \in DOMAIN learningData.patterns
                         /\ \E j \in DOMAIN learningData.patterns[word].items :
                               learningData.patterns[word].items[j] =
                                  [intent |-> h[i].intent,
                                   timestamp |-> h[i].timestamp]

\* C7: a request that is about to record its interaction, no handler being
\* in progress, finds at most 1000 interactions in the store, whatever the
\* other requests did (SpecLearn)
C7_NoneObservesOverflow ==
    \A r \in DOMAIN reqs :
        running = 0 /\ reqs[r].pc = "learn"
           => Len(learningData.interactions) <= 1000

\* one request has recorded the 1001st interaction while another one waits
\* to record its own
C7_Witness ==
    \E r1, r2 \in DOMAIN reqs :
        /\ reqs[r1].pc = "learn"
        /\ reqs[r2].pc = "respond"
        /\ running = 0
        /\ Len(learningData.interactions) = 800

\* C8: an assignment request for a machine in 1..5 that finds the model
\* untrained is answered 200 with a confidence of at most 0.3, risk level
\* "high" and a risk factor (Spec)
C8_GracefulWhenUntrained ==
    \A r \in DOMAIN reqs :
        /\ reqs[r].pc = "done"
        /\ reqs[r].reasoning.approach = "intelligent_worker_assignment"
        /\ MachineArg(reqs[r].reasoning.parameters.machineId) \in Machines
        /\ ~isModelTrained
        => /\ reqs[r].response.status = 200
           /\ Envelope(reqs[r]).confidence \in 0..((3 * One) \div 10)
           /\ reqs[r].result.risk_assessment.level = "high"
           /\ Len(reqs[r].result.risk_assessment.factors) > 0

\* C9: an assignment request whose query names a machine outside 1..5 is
\* answered with an error about the machine (Spec)
C9_NoRecommendationOffRange ==
    \A r \in DOMAIN reqs :
        /\ reqs[r].pc = "done"
        /\ reqs[r].reasoning.approach = "intelligent_worker_assignment"
        /\ MachineMatch(reqs[r].query).found
        /\ MachineMatch(reqs[r].query).value \notin 1..5
        => /\ reqs[r].response.status = 400
           /\ includes(reqs[r].response.error, "achine")
           /\ reqs[r].result.type # "worker_assignment"

\* a body without a query, with an empty query, or that is no JSON
BadBody(body) ==
    \/ ~body.parsed
    \/ Get(body.obj, "query") \in {JUndef, JStr("")}

\* C10: a request with such a body ends at once with status 400, an error
\* text and a suggestion, without intent, reasoning or result and with the
\* learning store as it was; no interaction with an empty query is ever
\* recorded (Spec)
C10_BadBodyRejected ==
    /\ [][\A r \in DOMAIN reqs, body \in Bodies :
            BadBody(body) /\ HandleNaturalLanguageQuery(r, body, RandomDraws) =>
               /\ reqs'[r].pc = "done"
               /\ reqs'[r].response.status = 400
               /\ Len(reqs'[r].response.error) > 0
               /\ Len(reqs'[r].response.ai_suggestion) > 0
               /\ reqs'[r].intent = NoIntent
               /\ reqs'[r].reasoning = NoReasoning
               /\ reqs'[r].result = NoResult
               /\ learningData' = learningData]_vars
    /\ [](\A i \in DOMAIN learningData.interactions :
            learningData.interactions[i].query # "")

\* a request without a query has been answered and nothing was recorded
C10_Witness ==
    \E r \in DOMAIN reqs :
        /\ reqs[r].pc = "done"
        /\ reqs[r].response.error = "Invalid query format: Query field is required"
        /\ reqs[r].intent = NoIntent
        /\ learningData.interactions = <<>>


\* C11: every request whose query is a string and was classified, whatever
\* context the caller supplied, gets its context extracted and its reasoning
\* result; none ends in the catch block for an error raised in these stages.
C11_StagesNeverRaise ==
    \A r \in DOMAIN reqs :
        reqs[r].intent # NoIntent => reqs[r].reasoning # NoReasoning

\* C12: whatever numeric weights the environmental factors of the context
\* carry, derived from the query or supplied by the caller, the confidence
\* returned by reasonAboutQuery lies in [0.1, 1.0], and so does the
\* confidence of the response envelope built from it.
C12_ConfidenceClamped ==
    \A r \in DOMAIN reqs :
        reqs[r].reasoning # NoReasoning =>
            /\ reqs[r].reasoning.confidence \in (One \div 10)..One
            /\ reqs[r].response.status = 200 =>
                 Envelope(reqs[r]).confidence \in (One \div 10)..One

\* a request answered with the lower bound: its supplied workload factor
\* carries the weight -2.0
C12_Witness ==
    \E r \in DOMAIN reqs :
        /\ reqs[r].pc = "done"
        /\ reqs[r].response.status = 200
        /\ Get(Get(Get(reqs[r].extracted, "environmental_factors"),
                   "workloadContext"), "weight") = JNum(-20)
        /\ Envelope(reqs[r]).confidence = One \div 10

\* the bonuses of the contextual score, in units of 1 / One
UrgencyBonus(req) ==
    IF includes(req.reasoning.explanation, "urgent")
       /\ req.base.estimatedTime < 20 * TimeUnit
    THEN 10 * One ELSE 0

QualityBonus(req) ==
    IF includes(req.reasoning.explanation, "quality")
       /\ req.base.avgQuality > 85 * TimeUnit
    THEN 15 * One ELSE 0

MachineIdOf(query) ==
    Get(Get(extractContextFromQuery(query, EmptyObj), "requirements"), "machineId")

\* position i of s starts a match of /machine\s*\d/
MatchesAt(s, i) ==
    /\ i + 6 <= Len(s)
    /\ SubSeq(s, i, i + 6) = "machine"
    /\ SkipSpaces(s, i + 7) <= Len(s)
    /\ IsDigit(Char(s, SkipSpaces(s, i + 7)))

\* s reads "machine N" at position i, and no match starts before i
FirstMentionAt(s, i, N) ==
    /\ i + 8 <= Len(s)
    /\ SubSeq(s, i, i + 8) = "machine " \o NumToStr(N)
    /\ \A j \in 1..(i - 1) : ~MatchesAt(s, j)

\* what the queries say about machine N in 1..5: any, the literal
\* "machine N" occurs; first, the first match reads "machine N" and no
\* digit follows; longer, it reads "machine N" and a digit follows
Mentions ==
    [q \in KnownQueries |->
       [N \in 1..5 |->
          LET s == toLowerCase(q)
          IN [any |-> includes(q, "machine " \o NumToStr(N)),
              first |-> \E i \in 1..Len(s) :
                           /\ FirstMentionAt(s, i, N)
                           /\ ~(i + 9 <= Len(s) /\ IsDigit(Char(s, i + 9))),
              longer |-> \E i \in 1..Len(s) :
                            /\ FirstMentionAt(s, i, N)
                            /\ i + 9 <= Len(s)
                            /\ IsDigit(Char(s, i + 9))]]]

MachineIds == [q \in KnownQueries |-> MachineIdOf(q)]

\* C14 as stated: for every N in 1..5, a query that contains the literal
\* substring "machine N" gets requirements.machineId = N, also when it
\* mentions more than one machine or further digits follow.
C14_AnyMentionExtracted ==
    \A r \in DOMAIN reqs : \A N \in 1..5 :
        /\ reqs[r].intent # NoIntent
        /\ Mentions[reqs[r].query][N].any
        => MachineIds[reqs[r].query] = JNum(N)

\* C14, amended: for every N in 1..5, a query whose first match of
\* /machine\s*\d+/i reads "machine N" gets requirements.machineId = N when
\* no further digit follows, and the whole number (10 or more) when further
\* digits follow.
C14_FirstMentionExtracted ==
    \A r \in DOMAIN reqs : \A N \in 1..5 :
        reqs[r].intent # NoIntent =>
            /\ Mentions[reqs[r].query][N].first =>
                  MachineIds[reqs[r].query] = JNum(N)
            /\ Mentions[reqs[r].query][N].longer =>
                  /\ MachineIds[reqs[r].query].t = "number"
                  /\ MachineIds[reqs[r].query].v >= 10

\* a query that mentions machine 2 and then machine 1 was processed and
\* its context carries machine 2
C14_Witness ==
    \E r \in DOMAIN reqs :
        /\ reqs[r].intent # NoIntent
        /\ includes(reqs[r].query, "machine 2")
        /\ includes(reqs[r].query, "machine 1")
        /\ Get(Get(reqs[r].extracted, "requirements"), "machineId") = JNum(2)

\* the context the extraction rules derive from each query text
DerivedContexts == [q \in KnownQueries |-> DerivedContext(q)]

\* C15: extractContextFromQuery merges shallowly and the supplied context
\* wins: every top-level key of the supplied context has exactly the
\* supplied value in the result, every other key keeps the value derived
\* from the query, and the result has no further key.
C15_ShallowMerge ==
    \A r \in DOMAIN reqs :
        reqs[r].intent # NoIntent =>
            LET supplied == reqs[r].context.v
                derived == DerivedContexts[reqs[r].query].v
                merged == reqs[r].extracted.v
            IN /\ DOMAIN merged = DOMAIN supplied \cup DOMAIN derived
               /\ \A k \in DOMAIN supplied : merged[k] = supplied[k]
               /\ \A k \in DOMAIN derived \ DOMAIN supplied : merged[k] = derived[k]

\* a query that names machine 1 came with requirements of its own: the
\* machine id derived from the query is gone from the result
C15_Witness ==
    \E r \in DOMAIN reqs :
        /\ reqs[r].intent # NoIntent
        /\ Get(Get(DerivedContexts[reqs[r].query], "requirements"), "machineId") = JNum(1)
        /\ Get(reqs[r].context, "requirements") = JObj("qualityFocus" :> JStr("high"))
        /\ Get(reqs[r].extracted, "requirements") = JObj("qualityFocus" :> JStr("high"))
        /\ Get(Get(reqs[r].extracted, "requirements"), "machineId") = JUndef

\* C16: the informally phrased request "urgent precision job on Machine 1",
\* which names machine, urgency and precision, is answered with a worker
\* recommendation: a result of type worker_assignment for machine 1.
C16_InformalRequestAssigned ==
    \A r \in DOMAIN reqs :
        /\ reqs[r].pc = "done"
        /\ reqs[r].query = "urgent precision job on Machine 1"
        => /\ reqs[r].response.status = 200
           /\ reqs[r].result.type = "worker_assignment"
           /\ reqs[r].reasoning.parameters.machineId = JNum(1)

\* no entry of the context's environmental factors carries a weight
NoWeightedFactor(context) ==
    LET factors == Get(context, "environmental_factors")
    IN factors.t = "object" =>
          \A k \in DOMAIN factors.v : ~Truthy(Get(factors.v[k], "weight"))

\* C17: a request handled by the assignment strategy whose context has
\* urgency high or quality focus high, and no weighted environmental
\* factor, ends with a reasoning confidence above the base 0.85 and at
\* most 1.0.
C17_ConfidenceRaised ==
    \A r \in DOMAIN reqs :
        /\ reqs[r].reasoning.approach = "intelligent_worker_assignment"
        /\ \/ Get(Get(reqs[r].extracted, "environmental_factors"), "urgency") = JStr("high")
           \/ Get(Get(reqs[r].extracted, "requirements"), "qualityFocus") = JStr("high")
        /\ NoWeightedFactor(reqs[r].extracted)
        => /\ reqs[r].reasoning.confidence > 85000
           /\ reqs[r].reasoning.confidence <= One

\* an assignment with urgency high only, answered with confidence 0.95
C17_Witness ==
    \E r \in DOMAIN reqs :
        /\ reqs[r].pc = "done"
        /\ reqs[r].reasoning.approach = "intelligent_worker_assignment"
        /\ Get(Get(reqs[r].extracted, "environmental_factors"), "urgency") = JStr("high")
        /\ Get(Get(reqs[r].extracted, "requirements"), "qualityFocus") = JUndef
        /\ NoWeightedFactor(reqs[r].extracted)
        /\ reqs[r].reasoning.confidence = 95000

\* the context o without the time stamp extractUserContext puts in it
WithoutTimestamp(o) ==
    JObj([k \in DOMAIN o.v \ {"timestamp"} |-> o.v[k]])

\* C18: the learning store never influences a decision: two requests with
\* the same query and the same supplied context, processed against
\* different contents of the learning store, have the same intent, the
\* same extracted context, the same reasoning result with the same
\* prediction parameters, and the one succeeds iff the other does.
C18_StoreNeverDecides ==
    \A r1, r2 \in DOMAIN reqs :
        /\ reqs[r1].intent # NoIntent
        /\ reqs[r2].intent # NoIntent
        /\ reqs[r1].query = reqs[r2].query
        /\ WithoutTimestamp(reqs[r1].context) = WithoutTimestamp(reqs[r2].context)
        => /\ reqs[r1].intent = reqs[r2].intent
           /\ WithoutTimestamp(reqs[r1].extracted) = WithoutTimestamp(reqs[r2].extracted)
           /\ reqs[r1].reasoning = reqs[r2].reasoning
           /\ reqs[r1].reasoning.parameters = reqs[r2].reasoning.parameters
           /\ reqs[r1].pc = "done" /\ reqs[r2].pc = "done" =>
                (reqs[r1].response.status = 200 <=> reqs[r2].response.status = 200)

\* two answered requests with the same query, the second one accepted
\* after the first had been recorded in the store
C18_Witness ==
    \E r1, r2 \in DOMAIN reqs :
        /\ reqs[r1].pc = "done" /\ reqs[r1].response.status = 200
        /\ reqs[r2].pc = "done" /\ reqs[r2].response.status = 200
        /\ reqs[r1].query = reqs[r2].query
        /\ Get(reqs[r1].context, "timestamp").v < Get(reqs[r2].context, "timestamp").v
        /\ \E i \in DOMAIN learningData.interactions :
              /\ learningData.interactions[i].query = reqs[r1].query
              /\ learningData.interactions[i].timestamp
                    = Get(reqs[r1].context, "timestamp").v

\* C19: processing a query whose primary intent is learning invokes
\* addTrainingData or retrain of the ML service: while records wait for a
\* training pass, the step that executes the learning strategy changes the
\* training data or the trained model.
C19_LearningTrains ==
    [][\A r \in DOMAIN reqs :
          /\ reqs[r].pc = "execute"
          /\ reqs'[r].pc = "learn"
          /\ reqs[r].intent.primary.type = "learning"
          /\ trainingData # snapshot
          => \/ trainingData' # trainingData
             \/ snapshot' # snapshot]_vars

\* the suggestions of req that describe an inferred machine
MachineSuggestions(req) ==
    {i \in DOMAIN req.reasoning.suggestions :
        includes(req.reasoning.suggestions[i], "Intelligently selected Machine")}

\* C20: in the assignment strategy a context without a machine id gets
\* machine 1 if quality focus is high, else 3 if urgency is high, else 2,
\* and exactly one suggestion describing the inferred machine; a context
\* that carries a machine id has that id used unchanged and gets no
\* machine suggestion.
C20_MachineDefaulted ==
    \A r \in DOMAIN reqs :
        reqs[r].reasoning.approach = "intelligent_worker_assignment" =>
            LET given == Get(Get(reqs[r].extracted, "requirements"), "machineId")
                quality == Get(Get(reqs[r].extracted, "requirements"), "qualityFocus")
                urgency == Get(Get(reqs[r].extracted, "environmental_factors"), "urgency")
            IN IF given = JUndef
               THEN /\ reqs[r].reasoning.parameters.machineId =
                          JNum(IF quality = JStr("high") THEN 1
                               ELSE IF urgency = JStr("high") THEN 3 ELSE 2)
                    /\ Cardinality(MachineSuggestions(reqs[r])) = 1
               ELSE /\ reqs[r].reasoning.parameters.machineId = given
                    /\ MachineSuggestions(reqs[r]) = {}

\* the suggestions of req that describe an assessed complexity
ComplexitySuggestions(req) ==
    {i \in DOMAIN req.reasoning.suggestions :
        includes(req.reasoning.suggestions[i], "Assessed complexity as level")}

\* C21: in the assignment strategy a context without a complexity keyword
\* gets the complexity 3, plus 1 if urgency is high, plus 1 if quality focus
\* is high (at most 5), and a suggestion describing the assessed complexity.
C21_ComplexityAssessed ==
    \A r \in DOMAIN reqs :
        /\ reqs[r].reasoning.approach = "intelligent_worker_assignment"
        /\ Get(Get(reqs[r].extracted, "requirements"), "complexity") = JUndef
        => /\ reqs[r].reasoning.parameters.complexity =
                Min(5, 3 + (IF Get(Get(reqs[r].extracted, "environmental_factors"),
                                   "urgency") = JStr("high") THEN 1 ELSE 0)
                         + (IF Get(Get(reqs[r].extracted, "requirements"),
                                   "qualityFocus") = JStr("high") THEN 1 ELSE 0))
           /\ ComplexitySuggestions(reqs[r]) # {}

\* the complexity levels other than the chosen one for which the model of
\* the request predicts another worker than the primary
OtherWorkerLevels(req) ==
    {i \in 1..5 :
        /\ i # req.reasoning.parameters.complexity
        /\ predictWorkerML(req.baseModel,
                           MachineArg(req.reasoning.parameters.machineId),
                           i).recommendedWorker # req.base.recommendedWorker}

\* C22: the alternatives are the first (at most two) complexity levels, in
\* ascending order over 1..5 without the chosen complexity c, whose
\* predicted worker differs from the primary; an alternative is annotated
\* "Faster but less thorough" iff its level is below c and "More thorough
\* but slower" iff it is above c.
C22_AlternativesInOrder ==
    \A r \in Assigned :
        LET alts == reqs[r].result.alternative_workers
            c == reqs[r].reasoning.parameters.complexity
            levels == OtherWorkerLevels(reqs[r])
        IN /\ Len(alts) = Min(2, Cardinality(levels))
           /\ \A k \in 1..Len(alts) :
                /\ alts[k].complexity_adjusted \in levels
                /\ Cardinality({j \in levels : j < alts[k].complexity_adjusted}) = k - 1
                /\ alts[k].reason = "Faster but less thorough"
                      <=> alts[k].complexity_adjusted < c
                /\ alts[k].reason = "More thorough but slower"
                      <=> alts[k].complexity_adjusted > c

\* an assignment with one alternative below and one above the chosen
\* complexity, where a third level with another worker was left out
C22_Witness ==
    \E r \in Assigned :
        /\ Len(reqs[r].result.alternative_workers) = 2
        /\ reqs[r].result.alternative_workers[1].complexity_adjusted
              < reqs[r].reasoning.parameters.complexity
        /\ reqs[r].result.alternative_workers[2].complexity_adjusted
              > reqs[r].reasoning.parameters.complexity
        /\ Cardinality(OtherWorkerLevels(reqs[r])) > 2

\* the risk factors of req name the time-constraint risk
TimeConstraintRisk(req) ==
    \E i \in DOMAIN req.result.risk_assessment.factors :
        req.result.risk_assessment.factors[i] =
            "Time constraint risk - consider alternative workers"

\* C23: for every assignment request, with derived or caller-supplied
\* context, the risk factors contain the time-constraint risk iff the
\* urgency of the context is high and estimatedTime > 20.
C23_TimeRiskIffUrgent ==
    \A r \in Assigned :
        TimeConstraintRisk(reqs[r])
        <=> /\ Get(Get(reqs[r].extracted, "environmental_factors"), "urgency")
                  = JStr("high")
            /\ reqs[r].base.estimatedTime > 20 * TimeUnit

\* C24: a tool call with a name that is none of the five tools, and a
\* resource read with a uri that is none of the three resources, is answered
\* with the error "Unknown tool: <name>" / "Unknown resource: <uri>" and
\* leaves the training data and the trained model as they were.
C24_UnknownRejected ==
    /\ [](/\ toolResp.kind = "tool" /\ toolResp.name \notin ToolNames =>
               /\ ~toolResp.ok
               /\ toolResp.error = "Unknown tool: " \o toolResp.name
          /\ toolResp.kind = "resource" /\ toolResp.name \notin ResourceUris =>
               /\ ~toolResp.ok
               /\ toolResp.error = "Unknown resource: " \o toolResp.name)
    /\ [][/\ toolResp' # toolResp
          /\ \/ toolResp'.kind = "tool" /\ toolResp'.name \notin ToolNames
             \/ toolResp'.kind = "resource" /\ toolResp'.name \notin ResourceUris
          => /\ trainingData' = trainingData
             /\ snapshot' = snapshot
             /\ isModelTrained' = isModelTrained]_vars

\* an unknown tool was called while added records wait for a training pass
C24_Witness ==
    /\ toolResp.kind = "tool"
    /\ toolResp.name = "nonexistent_tool"
    /\ ~toolResp.ok
    /\ nadd > 0
    /\ trainingData # snapshot

Recorded(store, req) ==
    \E i \in DOMAIN store.interactions :
        /\ store.interactions[i].query = req.query
        /\ store.interactions[i].timestamp >= Get(req.context, "timestamp").v

\* C26: the step that ends a request in an error response leaves the
\* learning store as it was, and the store then holds no interaction of
\* that request; the step that records the interaction of a request adds
\* exactly one entry.
C26_ErrorLeavesStore ==
    [][\A r \in DOMAIN reqs :
          /\ reqs[r].pc # "done" /\ reqs'[r].pc = "done"
             /\ reqs'[r].response.status # 200
             => /\ learningData' = learningData
                /\ ~Recorded(learningData', reqs'[r])
          /\ reqs[r].pc = "learn" /\ reqs'[r].pc = "learn_patterns"
             => Len(learningData'.interactions)
                   = Len(learningData.interactions) + 1]_vars

\* the query texts for which the classifier detects an urgency candidate
\* through urgent, rush or asap
UrgencyCandidates ==
    {q \in KnownQueries :
        \E k \in DOMAIN Understood[q].hits :
           intentPatterns[Understood[q].hits[k]].matched_pattern
              \in {"/urgent/i", "/rush/i", "/asap/i"}}

\* C27: a request whose query makes the classifier detect urgent, rush or
\* asap has environmental_factors.urgency = "high" and
\* requirements.timeConstraint = "urgent" in its extracted context (Spec)
C27_UrgencyAgreed ==
    \A r \in DOMAIN reqs :
        reqs[r].pc # "idle" /\ reqs[r].query \in UrgencyCandidates =>
           /\ Get(Get(reqs[r].extracted, "environmental_factors"), "urgency")
                 = JStr("high")
           /\ Get(Get(reqs[r].extracted, "requirements"), "timeConstraint")
                 = JStr("urgent")

\* C28: the contextual score of an assignment whose extracted requirements
\* have no qualityFocus = "high" is the capped product plus the urgency
\* bonus, without the 15 points for quality (SpecContext)
C28_QualityBonusNeedsFocus ==
    \A r \in DOMAIN reqs :
        /\ reqs[r].result.type = "worker_assignment"
        /\ reqs[r].base.confidence \in 0..One
        /\ ~QualityFocusHigh(reqs[r].extracted)
        => reqs[r].result.contextual_score =
              Min(100 * One,
                  (reqs[r].base.confidence \div 1000) * reqs[r].reasoning.confidence
                  + UrgencyBonus(reqs[r]))

\* C29: the log holds at most 100 interactions, in the order of logging up
\* to the latest one; and an answer of getInteractionHistory(limit) holds
\* the min(limit, length) latest interactions, latest first (SpecMcp)
C29_HistoryBounded ==
    /\ [](/\ Len(mcpInteractions) <= 100
          /\ \A i \in 1..(Len(mcpInteractions) - 1) :
                mcpInteractions[i + 1].timestamp
                   = mcpInteractions[i].timestamp + 1
          /\ Len(mcpInteractions) > 0 /\ nlog > 0 =>
                mcpInteractions[Len(mcpInteractions)].timestamp = clock - 1)
    /\ [][mcpHistory' # mcpHistory =>
             LET h == mcpHistory'.entries
                 a == mcpInteractions
             IN /\ Len(h) = Min(mcpHistory'.limit, Len(a))
                /\ \A i \in 1..Len(h) : h[i] = a[Len(a) + 1 - i]]_vars

\* the entries of a history alternate user and assistant, starting with a
\* user entry and ending with the reply to the last message
Alternates(h) ==
    /\ Len(h) % 2 = 0
    /\ \A i \in DOMAIN h :
         IF i % 2 = 1
         THEN /\ h[i].role = "user"
              /\ h[i + 1].role = "assistant"
              /\ h[i].message = JStr(h[i + 1].message.v)
         ELSE h[i].role = "assistant"

\* C30: when every /ai/conversation request received has been answered,
\* with 200 or with 400, the history of every conversation id alternates
\* user entries and the replies to them and has even length
\* (SpecConversation)
C30_HistoryAlternates ==
    (running = 0 /\ \A r \in DOMAIN reqs : reqs[r].pc \in {"idle", "done"})
    => \A id \in ConversationIds : Alternates(conversationHistory[id])

====
